---- MODULE Spec2Model ----
(***************************************************************************)
(* Model of the timed FSM interpreter (core_fsm::Automaton, Scheduler,     *)
(* Transition, script host) together with the driver thread of the        *)
(* runtime.  Time is the steady clock in milliseconds.                     *)
(***************************************************************************)
EXTENDS Integers, Sequences, FiniteSets, TLC

VARIABLES
    now,            \* Clock::now(), in ms
    pc,             \* position of the executor thread inside Automaton::run
    m_active,       \* Automaton::m_active
    m_log,          \* Automaton::m_log
    m_inputs,       \* Automaton::m_inputs   (name -> string)
    m_vars,         \* Automaton::m_vars     (name -> Variable)
    m_outputs,      \* Automaton::m_outputs  (name -> string)
    m_stateSince,   \* Automaton::m_stateSince
    m_incoming,     \* Automaton::m_incoming
    m_stop,         \* Automaton::m_stop
    m_seq,          \* Automaton::m_seq
    timers_,        \* Scheduler::timers_ (the vector under the priority_queue)
    sent,           \* packets handed to m_channel->send, in order
    hookSeen,       \* what each m_snapshotHook call observed
    entered,        \* State::onEnter invocations, in order
    trig,           \* processImmediateTransitions: parameter trigger
    pit_i,          \* processImmediateTransitions: loop index i
    varSnap,        \* processImmediateTransitions: varSnap
    pitRet,         \* where processImmediateTransitions returns to
    deadline,       \* run: absolute end of the wait_for
    expired,        \* run: the vector returned by popExpired, rest to fire
    old,            \* fireTransition: local old
    js,             \* script engine global ctx between bindCtx and pullBack
    lk,             \* run: its unique_lock (lk, lk2) owns m_mtx
    g_stop,         \* runtime_main.cpp g_stop
    packet,         \* main: the datagram that chan->poll(p) returned last
    armCount,       \* number of Scheduler::arm calls so far
    nInject,        \* number of injectInput calls so far
    nSetVar,        \* number of setVariable calls so far
    lastFire,       \* outcome of the latest fireTransition call
    docId,          \* which FSM document buildFromDocument was given
    isInitial,      \* the initial arguments of the addState calls so far
    file,           \* the JSON value stored in the file at path
    out,            \* loadFile: FsmDocument& out
    err,            \* loadFile, saveFile: *err
    retval          \* the last call made on its own: the value it returned,
                    \* or its name when it is a void function

vars == << now, pc, m_active, m_log, m_inputs, m_vars, m_outputs,
           m_stateSince, m_incoming, m_stop, m_seq, timers_, sent, hookSeen,
           entered, trig, pit_i, varSnap, pitRet, deadline, expired, old, js,
           lk, g_stop, packet, armCount, nInject, nSetVar, lastFire, docId,
           isInitial, file, out, err, retval >>

\* what loadFile, saveFile and the functions called on their own work on
call_vars == << file, out, err, retval >>

----------------------------------------------------------------------------
(* Bounds of the exploration *)

MaxTime   == 2      \* the clock stops advancing here
MaxInject == 2      \* injectInput calls
MaxSetVar == 1      \* setVariable calls
Gap       == 2      \* ms between two injections of a test script
MaxStates == 6      \* addState calls

----------------------------------------------------------------------------
(* Strings are sequences of characters; names are compared only. *)

Digits == {"0", "1", "2", "3", "4", "5", "6", "7", "8", "9"}

DigitVal(c) ==
    CASE c = "0" -> 0 [] c = "1" -> 1 [] c = "2" -> 2 [] c = "3" -> 3
      [] c = "4" -> 4 [] c = "5" -> 5 [] c = "6" -> 6 [] c = "7" -> 7
      [] c = "8" -> 8 [] c = "9" -> 9

DigitChar(d) ==
    CASE d = 0 -> "0" [] d = 1 -> "1" [] d = 2 -> "2" [] d = 3 -> "3"
      [] d = 4 -> "4" [] d = 5 -> "5" [] d = 6 -> "6" [] d = 7 -> "7"
      [] d = 8 -> "8" [] d = 9 -> "9"

IntMax == 2147483647
IntMin == -2147483647 - 1

RECURSIVE SkipSpace(_)
SkipSpace(s) ==
    IF s # << >> /\ Head(s) = " " THEN SkipSpace(Tail(s)) ELSE s

RECURSIVE ParseDigits(_, _)
ParseDigits(s, acc) ==
    IF s # << >> /\ Head(s) \in Digits
    THEN ParseDigits(Tail(s), acc * 10 + DigitVal(Head(s)))
    ELSE acc

\* std::stoi: leading blanks, optional sign, digits up to the first other
\* character; throws when there is no digit or the value leaves int.
StoI(s) ==
    LET t   == SkipSpace(s)
        neg == t # << >> /\ Head(t) = "-"
        u   == IF t # << >> /\ Head(t) \in {"-", "+"} THEN Tail(t) ELSE t
        mag == ParseDigits(u, 0)
        v   == IF neg THEN 0 - mag ELSE mag
    IN  IF u = << >> \/ Head(u) \notin Digits \/ v > IntMax \/ v < IntMin
        THEN [ok |-> FALSE, v |-> 0]
        ELSE [ok |-> TRUE, v |-> v]

RECURSIVE NatToStr(_)
NatToStr(n) ==
    IF n < 10 THEN << DigitChar(n) >>
    ELSE Append(NatToStr(n \div 10), DigitChar(n % 10))

IntToStr(n) == IF n < 0 THEN << "-" >> \o NatToStr(0 - n) ELSE NatToStr(n)

RECURSIVE AllDigits(_)
AllDigits(s) == s = << >> \/ (Head(s) \in Digits /\ AllDigits(Tail(s)))

RECURSIVE TrimRight(_)
TrimRight(s) ==
    IF s # << >> /\ s[Len(s)] = " "
    THEN TrimRight(SubSeq(s, 1, Len(s) - 1)) ELSE s

----------------------------------------------------------------------------
(* Values: std::variant<int,double,std::string,bool>, and JS values *)

IntV(n) == [t |-> "int", v |-> n]
DblV(n) == [t |-> "double", v |-> n]
StrV(s) == [t |-> "string", v |-> s]

JsNum(n) == [t |-> "num", v |-> n]
JsStr(s) == [t |-> "str", v |-> s]
JsNaN    == [t |-> "nan", v |-> 0]

\* QJSValue built from a Value in bindCtx / isTriggered
ToJs(val) ==
    IF val.t \in {"int", "double"} THEN JsNum(val.v) ELSE JsStr(val.v)

\* JS String(x)
JsToString(j) ==
    CASE j.t = "num" -> IntToStr(j.v)
      [] j.t = "str" -> j.v
      [] j.t = "nan" -> << "N", "a", "N" >>

\* QJSValue::toNumber
JsToNumber(j) ==
    CASE j.t = "num" -> j
      [] j.t = "nan" -> j
      [] j.t = "str" ->
            LET s   == TrimRight(SkipSpace(j.v))
                neg == s # << >> /\ Head(s) = "-"
                u   == IF s # << >> /\ Head(s) \in {"-", "+"} THEN Tail(s)
                       ELSE s
            IN  IF s = << >> THEN JsNum(0)
                ELSE IF u # << >> /\ AllDigits(u)
                     THEN JsNum(IF neg THEN 0 - ParseDigits(u, 0)
                                ELSE ParseDigits(u, 0))
                     ELSE JsNaN

----------------------------------------------------------------------------
(* JSON values and the persisted document: persistence.hpp *)

\* nlohmann::json values: null, integer, float, boolean, string, and the
\* empty array and object
JNull     == [k |-> "null",   n |-> 0, s |-> ""]
JInt(i)   == [k |-> "int",    n |-> i, s |-> ""]
JFloat(i) == [k |-> "float",  n |-> i, s |-> ""]
JBool(b)  == [k |-> "bool",   n |-> IF b THEN 1 ELSE 0, s |-> ""]
JStr(str) == [k |-> "string", n |-> 0, s |-> str]
JArray    == [k |-> "array",  n |-> 0, s |-> ""]
JObject   == [k |-> "object", n |-> 0, s |-> ""]

\* j.contains(key)
Contains(j, key) == key \in DOMAIN j

\* j.value(key, std::string{}) on an object whose key, if present, holds
\* a string
ValueOr(j, key) == IF Contains(j, key) THEN j[key].s ELSE ""

\* adl_serializer<VariableDesc>::from_json
VariableFromJson(j) ==
    [name |-> j["name"].s, type |-> j["type"].s, init |-> j["init"]]

\* adl_serializer<VariableDesc>::to_json
VariableToJson(v) ==
    [name |-> JStr(v.name), type |-> JStr(v.type), init |-> v.init]

\* adl_serializer<StateDesc>::from_json, on a default-constructed StateDesc
StateFromJson(j) ==
    [id      |-> j["id"].s,
     initial |-> IF Contains(j, "initial") THEN j["initial"].n = 1 ELSE FALSE,
     onEnter |-> IF Contains(j, "onEnter") THEN j["onEnter"].s ELSE ""]

\* adl_serializer<StateDesc>::to_json
StateToJson(st) ==
    [key \in {"id"} \cup (IF st.initial THEN {"initial"} ELSE {})
                    \cup (IF st.onEnter # "" THEN {"onEnter"} ELSE {}) |->
        CASE key = "id"      -> JStr(st.id)
          [] key = "initial" -> JBool(TRUE)
          [] key = "onEnter" -> JStr(st.onEnter)]

\* adl_serializer<TransitionDesc>::from_json, on a default-constructed
\* TransitionDesc (delay_ms a null json)
TransitionFromJson(j) ==
    [from     |-> j["from"].s,
     to       |-> j["to"].s,
     trigger  |-> IF Contains(j, "trigger") THEN j["trigger"].s ELSE "",
     guard    |-> IF Contains(j, "guard") THEN j["guard"].s ELSE "",
     delay_ms |-> IF Contains(j, "delay_ms") THEN j["delay_ms"] ELSE JNull]

\* a to_json that also leaves out a delay_ms of 0
TransitionToJsonOmitsZero(t) ==
    [key \in {"from", "to"}
              \cup (IF t.trigger # "" THEN {"trigger"} ELSE {})
              \cup (IF t.guard # "" THEN {"guard"} ELSE {})
              \cup (IF t.delay_ms.k # "null" /\ t.delay_ms # JInt(0)
                    THEN {"delay_ms"} ELSE {}) |->
        CASE key = "from"     -> JStr(t.from)
          [] key = "to"       -> JStr(t.to)
          [] key = "trigger"  -> JStr(t.trigger)
          [] key = "guard"    -> JStr(t.guard)
          [] key = "delay_ms" -> t.delay_ms]

\* adl_serializer<TransitionDesc>::to_json
TransitionToJson(t) ==
    [key \in {"from", "to"}
              \cup (IF t.trigger # "" THEN {"trigger"} ELSE {})
              \cup (IF t.guard # "" THEN {"guard"} ELSE {})
              \cup (IF t.delay_ms.k # "null" THEN {"delay_ms"} ELSE {}) |->
        CASE key = "from"     -> JStr(t.from)
          [] key = "to"       -> JStr(t.to)
          [] key = "trigger"  -> JStr(t.trigger)
          [] key = "guard"    -> JStr(t.guard)
          [] key = "delay_ms" -> t.delay_ms]

\* get<std::vector<std::string>>() and its inverse
StringsFromJson(a) == [k \in 1 .. Len(a) |-> a[k].s]
StringsToJson(v)   == [k \in 1 .. Len(v) |-> JStr(v[k])]

\* the at(key) calls of adl_serializer<FsmDocument>::from_json find their
\* keys (else: nlohmann::json::out_of_range)
DocumentKeysPresent(j) ==
    /\ Contains(j, "id") \/ Contains(j, "name")
    /\ {"inputs", "outputs", "variables", "states", "transitions"}
          \subseteq DOMAIN j
    /\ \A k \in 1 .. Len(j["transitions"]) :
          {"from", "to"} \subseteq DOMAIN j["transitions"][k]

\* adl_serializer<FsmDocument>::from_json, on a default-constructed document
DocumentFromJson(j) ==
    [name        |-> IF Contains(j, "id") THEN j["id"].s ELSE j["name"].s,
     comment     |-> IF Contains(j, "comment") THEN j["comment"].s ELSE "",
     inputs      |-> StringsFromJson(j["inputs"]),
     outputs     |-> StringsFromJson(j["outputs"]),
     variables   |-> [k \in 1 .. Len(j["variables"]) |->
                         VariableFromJson(j["variables"][k])],
     states      |-> [k \in 1 .. Len(j["states"]) |->
                         StateFromJson(j["states"][k])],
     transitions |-> [k \in 1 .. Len(j["transitions"]) |->
                         TransitionFromJson(j["transitions"][k])]]

\* adl_serializer<FsmDocument>::to_json
DocumentToJson(d) ==
    [name        |-> JStr(d.name),
     comment     |-> JStr(d.comment),
     inputs      |-> StringsToJson(d.inputs),
     outputs     |-> StringsToJson(d.outputs),
     variables   |-> [k \in 1 .. Len(d.variables) |->
                         VariableToJson(d.variables[k])],
     states      |-> [k \in 1 .. Len(d.states) |-> StateToJson(d.states[k])],
     transitions |-> [k \in 1 .. Len(d.transitions) |->
                         TransitionToJson(d.transitions[k])]]

\* the guard texts of the documents tried
GuardIn      == "valueof(\"in\") == \"1\""
GuardNope    == "valueof(\"nope\") == \"1\""
GuardInNope  == "valueof(\"in\") == \"1\" || valueof(\"nope\") == \"1\""
GuardTimeout == "valueof(\"timeout\") == \"2\""

\* std::regex_search(guard, m, vo_re): the X of the leftmost
\* valueof("X") in the text, "" when the text holds none
RegexSearch(guard) ==
    CASE guard = GuardIn      -> "in"
      [] guard = GuardNope    -> "nope"
      [] guard = GuardInNope  -> "in"
      [] guard = GuardTimeout -> "timeout"
      [] OTHER                -> ""

\* every X the text names in a valueof("X")
ValueofNames(guard) ==
    CASE guard = GuardIn      -> {"in"}
      [] guard = GuardNope    -> {"nope"}
      [] guard = GuardInNope  -> {"in", "nope"}
      [] guard = GuardTimeout -> {"timeout"}
      [] OTHER                -> {}

----------------------------------------------------------------------------
(* The FSM document and the automaton buildFromDocument makes of it *)

NoGuard          == [kind |-> "none", name |-> "", val |-> << >>]
ValueofEq(n, s)  == [kind |-> "valueof_eq", name |-> n, val |-> s]
RefError         == [kind |-> "ref_error", name |-> "", val |-> << >>]

Output(n, s) == [op |-> "output", name |-> n, val |-> JsStr(s)]
Assign(n, k) == [op |-> "assign", name |-> n, val |-> JsNum(k)]
Throw        == [op |-> "throw", name |-> "", val |-> JsNum(0)]

EmptyVars == [n \in {} |-> [type |-> "Int", init |-> IntV(0)]]

\* Transition(inputName, guardExpr, delay | delayVarName, src, dst)
Transition(in, g, d, dv, s, t) ==
    [m_inputName |-> in, guard |-> g, m_delay |-> d, m_delayVarName |-> dv,
     m_src |-> s, m_dst |-> t]

\* A: two unconditional timed edges (one by variable, one a self-loop), an
\* input edge and an edge whose guard names an undeclared identifier.
\* B: entry action writes an output and then throws.  C: entry action
\* assigns the delay variable.
DocMix ==
    [ variables   |-> [timeout |-> [type |-> "Int", init |-> IntV(2)]],
      states      |-> << [id |-> "A", initial |-> TRUE,  onEnter |-> << >>],
                         [id |-> "B", initial |-> FALSE,
                          onEnter |-> << Output("out", << "b" >>), Throw >>],
                         [id |-> "C", initial |-> FALSE,
                          onEnter |-> << Assign("timeout", 1) >>] >>,
      transitions |-> << Transition("", NoGuard, 0, "timeout", 0, 1),
                         Transition("", NoGuard, 2, "", 0, 0),
                         Transition("in", ValueofEq("in", << "1" >>), 0, "", 0, 2),
                         Transition("go", RefError, 0, "", 0, 1),
                         Transition("in", ValueofEq("in", << "0" >>), 0, "", 1, 0),
                         Transition("", NoGuard, 0, "", 2, 0) >> ]

\* The turn-off delay: IDLE --in[=="1"]--> ACTIVE --in[=="0"]--> TIMING,
\* TIMING --in[=="1"]--> ACTIVE, TIMING --after timeout ms--> IDLE.
DocTof ==
    [ variables   |-> [timeout |-> [type |-> "Int", init |-> IntV(2)]],
      states      |-> << [id |-> "IDLE",   initial |-> TRUE,  onEnter |-> << >>],
                         [id |-> "ACTIVE", initial |-> FALSE, onEnter |-> << >>],
                         [id |-> "TIMING", initial |-> FALSE, onEnter |-> << >>] >>,
      transitions |-> << Transition("in", ValueofEq("in", << "1" >>), 0, "", 0, 1),
                         Transition("in", ValueofEq("in", << "0" >>), 0, "", 1, 2),
                         Transition("in", ValueofEq("in", << "1" >>), 0, "", 2, 1),
                         Transition("", NoGuard, 0, "timeout", 2, 0) >> ]

\* A --tick--> B guarded by valueof("enable") == "1"
DocGate ==
    [ variables   |-> EmptyVars,
      states      |-> << [id |-> "A", initial |-> TRUE,  onEnter |-> << >>],
                         [id |-> "B", initial |-> FALSE, onEnter |-> << >>] >>,
      transitions |-> << Transition("tick", ValueofEq("enable", << "1" >>),
                                    0, "", 0, 1) >> ]

\* S0 --""--> S1 with no delay, guarded by valueof("go") == "1" on a
\* variable go that starts as 1
DocImm ==
    [ variables   |-> [go |-> [type |-> "Int", init |-> IntV(1)]],
      states      |-> << [id |-> "S0", initial |-> TRUE,  onEnter |-> << >>],
                         [id |-> "S1", initial |-> FALSE, onEnter |-> << >>] >>,
      transitions |-> << Transition("", ValueofEq("go", << "1" >>),
                                    0, "", 0, 1) >> ]

\* mapVarType
MapVarType(type) ==
    CASE type = "int"   -> "Int"
      [] type = "float" -> "Double"
      [] OTHER          -> "String"

\* the characters of the strings that variables are initialised with and
\* that datagrams carry
Chars(str) ==
    CASE str = ""  -> << >>
      [] str = "x" -> << "x" >>
      [] str = "1" -> << "1" >>
      [] str = "5" -> << "5" >>

\* buildFromDocument: the Value made of a variable's init (an init that is
\* neither number nor string makes get<std::string> throw)
InitValue(init) ==
    CASE init.k = "int"    -> IntV(init.n)
      [] init.k = "float"  -> DblV(init.n)
      [] init.k = "string" -> StrV(Chars(init.s))

\* the guard function the Transition constructor compiles from the text
CompileGuard(guard) ==
    CASE guard = ""           -> NoGuard
      [] guard = GuardIn      -> ValueofEq("in", << "1" >>)
      [] guard = GuardNope    -> ValueofEq("nope", << "1" >>)
      [] guard = GuardTimeout -> ValueofEq("timeout", << "2" >>)

\* buildFromDocument: idx.at(id), the index of the first state with that id
StateIndex(doc, id) ==
    (CHOOSE k \in 1 .. Len(doc.states) :
        /\ doc.states[k].id = id
        /\ \A l \in 1 .. k - 1 : doc.states[l].id # id) - 1

\* buildFromDocument, the transitions loop: a string delay_ms names the
\* delay variable; otherwise the delay is the integer, or 0 when delay_ms
\* is no integer
BuildTransition(tr, doc) ==
    IF tr.delay_ms.k = "string"
    THEN Transition(tr.trigger, CompileGuard(tr.guard), 0, tr.delay_ms.s,
                    StateIndex(doc, tr.from), StateIndex(doc, tr.to))
    ELSE Transition(tr.trigger, CompileGuard(tr.guard),
                    IF tr.delay_ms.k = "int" THEN tr.delay_ms.n ELSE 0, "",
                    StateIndex(doc, tr.from), StateIndex(doc, tr.to))

\* buildFromDocument on a loaded FsmDocument whose states have no entry
\* action
BuildFromDocument(doc) ==
    [ variables   |->
         [n \in { doc.variables[k].name : k \in 1 .. Len(doc.variables) } |->
             LET v == doc.variables[CHOOSE k \in 1 .. Len(doc.variables) :
                                       doc.variables[k].name = n]
             IN  [type |-> MapVarType(v.type), init |-> InitValue(v.init)]],
      states      |-> [k \in 1 .. Len(doc.states) |->
                         [id |-> doc.states[k].id,
                          initial |-> doc.states[k].initial,
                          onEnter |-> << >>]],
      transitions |-> [k \in 1 .. Len(doc.transitions) |->
                         BuildTransition(doc.transitions[k], doc)] ]

DocIds  == {"mix"}
TestIds == {"tof", "gate", "gate2", "imm"}
DocOf(id) ==
    CASE id = "mix"  -> DocMix
      [] id = "tof"  -> DocTof
      [] id = "gate" -> DocGate
      [] id = "gate2" -> DocGate
      [] id = "imm"  -> DocImm
      [] id = "file" -> BuildFromDocument(out)
      [] id = "none" -> [variables |-> EmptyVars, states |-> << >>,
                         transitions |-> << >>]

\* the injections a test sends for each document, in order
ScriptOf(id) ==
    CASE id = "tof"  -> << << "in", << "1" >> >>, << "in", << "0" >> >> >>
      [] id = "gate" -> << << "enable", << "0" >> >>, << "tick", << "g", "o" >> >>,
                           << "enable", << "1" >> >>, << "tick", << "g", "o" >> >> >>
      [] id = "gate2" -> << << "tick", << "g", "o" >> >>, << "enable", << "1" >> >>,
                            << "enable", << "0" >> >>, << "tick", << "g", "o" >> >> >>
      [] OTHER       -> << >>

\* m_states and m_transitions, indexed from 0 as in the code
NTransitions == Len(DocOf(docId).transitions)
m_states(i)      == DocOf(docId).states[i + 1]
m_transitions(i) == DocOf(docId).transitions[i + 1]

\* addState that looks at the size only
AddStateFirstOnly(size, initial, active) ==
    IF size = 1 THEN size - 1 ELSE active

\* Automaton::addState: m_active after the push_back that made m_states
\* hold size states
AddStateActive(size, initial, active) ==
    IF size = 1 \/ initial THEN size - 1 ELSE active

\* Automaton::addState over the document's states, in order
RECURSIVE AddStates(_, _, _)
AddStates(sts, n, active) ==
    IF n > Len(sts) THEN active
    ELSE AddStates(sts, n + 1, AddStateActive(n, sts[n].initial, active))

\* Automaton::addVariable over the document's variables
InitVars(d) ==
    [n \in DOMAIN d.variables |->
        [type |-> d.variables[n].type, value |-> d.variables[n].init]]

----------------------------------------------------------------------------
(* Scheduler: std::priority_queue<Timer, std::vector<Timer>, Compare>.     *)
(* The heap is the vector c, position k of the code being h[k + 1]; a      *)
(* timer also carries ord, the number of the arm call that made it.        *)

Timer(at, idx, ord) == [at |-> at, transitionIndex |-> idx, ord |-> ord]

\* Scheduler::Compare
Compare(a, b) == a.at > b.at

\* With(e, F) is F(e) with e evaluated once
With(e, F(_)) == CHOOSE r \in {F(x) : x \in {e}} : TRUE

\* std::push_heap's sift-up of value into the hole at position hole
RECURSIVE PushHeap(_, _, _, _)
PushHeap(h, hole, top, value) ==
    LET parent == (hole - 1) \div 2
    IN  IF hole > top /\ Compare(h[parent + 1], value)
        THEN With([h EXCEPT ![hole + 1] = h[parent + 1]],
                  LAMBDA h1 : PushHeap(h1, parent, top, value))
        ELSE [h EXCEPT ![hole + 1] = value]

\* priority_queue::push: c.push_back(x); std::push_heap(c.begin(), c.end())
HeapPush(h, x) ==
    With(Append(h, x), LAMBDA c : PushHeap(c, Len(c) - 1, 0, x))

\* the sift-down loop of std::__adjust_heap; yields the heap and the hole
RECURSIVE AdjustDown(_, _, _)
AdjustDown(h, hole, len) ==
    IF hole < (len - 1) \div 2
    THEN LET right == 2 * (hole + 1)
             child == IF Compare(h[right + 1], h[right]) THEN right - 1
                      ELSE right
         IN  With([h EXCEPT ![hole + 1] = h[child + 1]],
                  LAMBDA h1 : AdjustDown(h1, child, len))
    ELSE << h, hole >>

\* the rest of std::__adjust_heap(first, 0, len, value), from the heap and
\* hole the loop left
AdjustTail(r, len, value) ==
    LET h1    == r[1]
        hole1 == r[2]
        only  == len % 2 = 0 /\ hole1 = (len - 2) \div 2
        h2    == IF only
                 THEN [h1 EXCEPT ![hole1 + 1] = h1[2 * (hole1 + 1)]]
                 ELSE h1
        hole2 == IF only THEN 2 * (hole1 + 1) - 1 ELSE hole1
    IN  With(h2, LAMBDA c : PushHeap(c, hole2, 0, value))

\* std::__adjust_heap(first, 0, len, value)
AdjustHeap(h, len, value) ==
    With(AdjustDown(h, 0, len), LAMBDA r : AdjustTail(r, len, value))

\* priority_queue::pop: std::pop_heap(c.begin(), c.end()); c.pop_back()
HeapPop(h) ==
    IF Len(h) <= 1 THEN << >>
    ELSE With(SubSeq(h, 1, Len(h) - 1),
              LAMBDA c : AdjustHeap(c, Len(c), h[Len(h)]))

\* priority_queue::top
HeapTop(h) == h[1]

\* an arm that pushes nothing for a transition that has a pending timer
ArmOnce(h, idx, delay, clock, ord) ==
    IF \E k \in 1 .. Len(h) : h[k].transitionIndex = idx THEN h
    ELSE HeapPush(h, Timer(clock + delay, idx, ord))

\* Scheduler::arm
Arm(h, idx, delay, clock, ord) == HeapPush(h, Timer(clock + delay, idx, ord))

Hours24 == 86400000

\* Scheduler::nextTimeout().value_or(std::chrono::hours(24))
NextTimeout(h, clock) ==
    IF h = << >> THEN Hours24
    ELSE IF HeapTop(h).at < clock THEN 0 ELSE HeapTop(h).at - clock

\* a loop test that leaves the timers due exactly at the clock value
IsExpiredStrict(timer, clock) == timer.at < clock

\* Scheduler::popExpired: the test timers_.top().at <= now
IsExpired(timer, clock) == timer.at <= clock

\* Scheduler::popExpired: << the expired timers in pop order, the heap left >>
RECURSIVE PopExpired(_, _, _)
PopExpired(h, clock, acc) ==
    IF h # << >> /\ IsExpired(HeapTop(h), clock)
    THEN With(<< HeapPop(h), Append(acc, HeapTop(h)) >>,
              LAMBDA p : PopExpired(p[1], clock, p[2]))
    ELSE << acc, h >>

\* Scheduler::purgeForState, first loop: pop everything, keep the matching
RECURSIVE PurgeKeep(_, _, _)
PurgeKeep(h, activeState, keep) ==
    IF h = << >> THEN keep
    ELSE With(<< HeapPop(h),
                 IF m_transitions(HeapTop(h).transitionIndex).m_src
                      = activeState
                 THEN Append(keep, HeapTop(h)) ELSE keep >>,
              LAMBDA p : PurgeKeep(p[1], activeState, p[2]))

\* Scheduler::purgeForState, second loop: push the kept timers back
RECURSIVE PushAll(_, _)
PushAll(h, keep) ==
    IF keep = << >> THEN h
    ELSE With(<< HeapPush(h, Head(keep)), Tail(keep) >>,
              LAMBDA p : PushAll(p[1], p[2]))

\* purgeForState that keeps every timer
PurgeKeepsAll(h, activeState) == h

\* purgeForState that empties the queue
PurgeDropsAll(h, activeState) == << >>

PurgeForState(h, activeState) ==
    With(PurgeKeep(h, activeState, << >>), LAMBDA keep : PushAll(<< >>, keep))

----------------------------------------------------------------------------
(* Transition: guard evaluation and delay *)


\* valueof that does not look at the inputs
GuardValueofVarsOnly(name, inputs, snap) ==
    IF name \in DOMAIN snap THEN JsToString(ToJs(snap[name])) ELSE << >>

\* function valueof(name) of transition.cpp's engine
GuardValueof(name, inputs, snap) ==
    IF name \in DOMAIN inputs THEN inputs[name]
    ELSE IF name \in DOMAIN snap THEN JsToString(ToJs(snap[name]))
    ELSE << >>

\* isTriggered that does not call the guard
IsTriggeredNoGuard(t, incomingInput, inputs, snap) ==
    IF incomingInput # t.m_inputName THEN "false" ELSE "true"

\* isTriggered from the test of guardFn_ on: "true" without a guard, else the
\* outcome of fn.call(): toBool, or "throw" (std::runtime_error) on an error
GuardResult(t, inputs, snap) ==
    CASE t.guard.kind = "none" -> "true"
      [] t.guard.kind = "ref_error" -> "throw"
      [] t.guard.kind = "valueof_eq" ->
           IF GuardValueof(t.guard.name, inputs, snap) = t.guard.val
           THEN "true" ELSE "false"

\* isTriggered in which a transition without trigger answers to every input
IsTriggeredEmptyMatchesAll(t, incomingInput, inputs, snap) ==
    IF t.m_inputName # "" /\ incomingInput # t.m_inputName THEN "false"
    ELSE GuardResult(t, inputs, snap)

\* Transition::isTriggered: "true", "false", or "throw" (std::runtime_error)
IsTriggered(t, incomingInput, inputs, snap) ==
    IF incomingInput # t.m_inputName THEN "false"
    ELSE GuardResult(t, inputs, snap)

\* static_cast<int>(double) of a whole number inside int
CastInt(v) == v

\* what static_cast<int> of a NaN may yield
CastOfNaN == {IntMin, 0}

\* a variable delay resolved once, from the document's init value
ArmDelayFromInit(t, variables) ==
    IF t.m_delayVarName # ""
    THEN IF t.m_delayVarName \in DOMAIN DocOf(docId).variables
         THEN {DocOf(docId).variables[t.m_delayVarName].init.v}
         ELSE {1}
    ELSE IF t.m_delay > 0 THEN {t.m_delay} ELSE {1}

\* a delay without the 1 ms default
ArmDelayNoDefault(t, variables) ==
    IF t.m_delayVarName # "" /\ t.m_delayVarName \in DOMAIN variables
    THEN {variables[t.m_delayVarName].value.v}
    ELSE {t.m_delay}

\* the delay computed in processImmediateTransitions before arm: the values
\* it may have (one, unless a double that is NaN is cast)
ArmDelay(t, variables) ==
    IF t.m_delayVarName # ""
    THEN IF t.m_delayVarName \in DOMAIN variables
         THEN LET val == variables[t.m_delayVarName].value
              IN  CASE val.t = "int" -> {val.v}
                    [] val.t = "double" -> {CastInt(val.v)}
                    [] val.t = "nan" -> CastOfNaN
                    [] OTHER -> {1}
         ELSE {1}
    ELSE IF t.m_delay > 0 THEN {t.m_delay} ELSE {1}

\* makeVarSnapshot
MakeVarSnapshot(variables) == [n \in DOMAIN variables |-> variables[n].value]

----------------------------------------------------------------------------
(* Script host: bindCtx, the entry action, pullBack *)

EmptyMap == [n \in {} |-> << >>]

\* an insertion that keeps the value of a key already present
MapPutKeepsFirst(map, k, v) ==
    [n \in DOMAIN map \cup {k} |-> IF n \in DOMAIN map THEN map[n] ELSE v]

MapPut(map, k, v) ==
    [n \in DOMAIN map \cup {k} |-> IF n = k THEN v ELSE map[n]]

\* script::bindCtx: ctx.inputs, ctx.vars with JS types, ctx.outputs empty
BindCtx(variables, inputs) ==
    [inputs  |-> inputs,
     vars    |-> [n \in DOMAIN variables |-> ToJs(variables[n].value)],
     outputs |-> EmptyMap,
     failed  |-> FALSE]

\* fn.call() of the entry action: statements run until one throws; the
\* error value the call returns is dropped by the closure
RECURSIVE RunAction(_, _)
RunAction(stmts, ctx) ==
    IF stmts = << >> THEN ctx
    ELSE LET st == Head(stmts)
         IN  CASE st.op = "throw"  -> [ctx EXCEPT !.failed = TRUE]
               [] st.op = "assign" ->
                    RunAction(Tail(stmts),
                        IF st.name \in DOMAIN ctx.vars
                        THEN [ctx EXCEPT !.vars[st.name] = st.val]
                        ELSE ctx)
               [] st.op = "output" ->
                    RunAction(Tail(stmts),
                        [ctx EXCEPT !.outputs =
                            MapPut(@, st.name, JsToString(st.val))])

\* script::pullBack, one variable: the values var.set may receive
PullBackValue(type, jsVal) ==
    CASE type = "Int" ->
            IF JsToNumber(jsVal).t = "nan" THEN {IntV(k) : k \in CastOfNaN}
            ELSE {IntV(JsToNumber(jsVal).v)}
      [] type = "Double" ->
            IF JsToNumber(jsVal).t = "nan" THEN {[t |-> "nan", v |-> 0]}
            ELSE {DblV(JsToNumber(jsVal).v)}
      [] OTHER -> {StrV(JsToString(jsVal))}

\* script::pullBack, the vars loop: every variable map that may result
PullBackVars(ctx, variables) ==
    LET both == DOMAIN variables \cap DOMAIN ctx.vars
        cand == UNION {PullBackValue(variables[n].type, ctx.vars[n])
                         : n \in both}
    IN  { [n \in DOMAIN variables |->
              IF n \in both
              THEN [type |-> variables[n].type, value |-> f[n]]
              ELSE variables[n]]
          : f \in { g \in [both -> cand] :
                      \A n \in both :
                         g[n] \in PullBackValue(variables[n].type,
                                                ctx.vars[n]) } }

\* script::pullBack, the outputs loop
PullBackOutputs(ctx, outputs) ==
    [n \in DOMAIN outputs \cup DOMAIN ctx.outputs |->
        IF n \in DOMAIN ctx.outputs THEN ctx.outputs[n] ELSE outputs[n]]

----------------------------------------------------------------------------
(* Automaton::setVariable: the value stored for valueStr *)

SetVariableValue(type, valueStr) ==
    CASE type = "Int" ->
            IF StoI(valueStr).ok THEN IntV(StoI(valueStr).v)
            ELSE StrV(valueStr)
      [] type = "Double" ->      \* std::stod, on strings without a fraction
            IF StoI(valueStr).ok THEN DblV(StoI(valueStr).v)
            ELSE StrV(valueStr)
      [] OTHER -> StrV(valueStr)

----------------------------------------------------------------------------
(* Initial state: the automaton as built, run() not yet entered *)

NoFire == [idx |-> 0 - 1, ok |-> FALSE, before |-> 0 - 1,
           actionFailed |-> FALSE, armed |-> 0, changed |-> 0]

\* no file at path
NoFile == [kind |-> "nofile"]

\* no datagram polled yet
NoPacket == [kind |-> "none"]

\* an err string nothing was written to
NoWarning == [kind |-> "", from |-> "", to |-> "", what |-> ""]

\* a default-constructed FsmDocument
NoDocument ==
    [name |-> "", comment |-> "", inputs |-> << >>, outputs |-> << >>,
     variables |-> << >>, states |-> << >>, transitions |-> << >>]

\* the members of a freshly constructed Automaton and the threads' locals
InitMembers ==
    /\ now = 0
    /\ pc = "start"
    /\ m_log = << >>
    /\ m_outputs = EmptyMap
    /\ m_stateSince = 0
    /\ m_incoming = << >>
    /\ m_stop = FALSE
    /\ m_seq = 0
    /\ timers_ = << >>
    /\ sent = << >>
    /\ hookSeen = << >>
    /\ entered = << >>
    /\ pitRet = "top"
    /\ deadline = 0
    /\ expired = << >>
    /\ old = 0
    /\ js = BindCtx(EmptyMap, EmptyMap)
    /\ lk = FALSE
    /\ g_stop = FALSE
    /\ packet = NoPacket
    /\ armCount = 0
    /\ nInject = 0
    /\ nSetVar = 0
    /\ lastFire = NoFire

\* m_inputs and the locals of processImmediateTransitions before run()
InitPit ==
    /\ m_inputs = EmptyMap
    /\ trig = ""
    /\ pit_i = 0
    /\ varSnap = EmptyMap

\* nothing loaded, nothing called
InitCall ==
    /\ file = NoFile
    /\ out = NoDocument
    /\ err = NoWarning
    /\ retval = "none"

\* buildFromDocument on one of the documents ids
InitBuilt(ids) ==
    /\ docId \in ids
    /\ m_active = AddStates(DocOf(docId).states, 1, 0)
    /\ isInitial = [k \in 1..Len(DocOf(docId).states) |->
                       DocOf(docId).states[k].initial]
    /\ m_vars = InitVars(DocOf(docId))
    /\ InitMembers
    /\ InitPit

InitOf(ids) == InitBuilt(ids) /\ InitCall

Init == InitOf(DocIds)

----------------------------------------------------------------------------
(* Executor thread: Automaton::run and what it calls *)

exec_locals ==
    << trig, pit_i, varSnap, pitRet, deadline, expired, old, js, lk >>
driver_vars == << g_stop, packet, nInject, nSetVar >>

\* the packet broadcastSnapshot builds
Snapshot(seq) ==
    [type |-> "state", seq |-> seq, ts |-> now,
     state |-> m_states(m_active).id, inputs |-> m_inputs,
     vars |-> MakeVarSnapshot(m_vars), outputs |-> m_outputs]

\* broadcastSnapshot numbering with m_seq++ instead of ++m_seq
BroadcastPostIncrement ==
    /\ m_seq' = m_seq + 1
    /\ sent' = Append(sent, Snapshot(m_seq))

\* Automaton::broadcastSnapshot, with the channel of runtime_main attached
BroadcastSnapshot ==
    /\ m_seq' = m_seq + 1
    /\ sent' = Append(sent, Snapshot(m_seq + 1))

\* entering processImmediateTransitions(trigger) from the place ret
CallPIT(trigger, ret) ==
    /\ pc' = "pit_snap"
    /\ trig' = trigger
    /\ pitRet' = ret
    /\ pit_i' = 0

\* run(): the initial snapshot
RunStart ==
    /\ pc = "start"
    /\ BroadcastSnapshot
    /\ pc' = "loop_test"
    /\ UNCHANGED << now, m_active, m_log, m_inputs, m_vars, m_outputs,
                    m_stateSince, m_incoming, m_stop, timers_, hookSeen,
                    entered, exec_locals, driver_vars, armCount, lastFire,
                    docId, isInitial, call_vars >>

\* a run() loop that goes to the wait without processImmediateTransitions("")
LoopTestSkipsPit ==
    /\ pc = "loop_test"
    /\ \E seen \in {m_stop, FALSE} :
          pc' = IF seen THEN "returned" ELSE "next_timeout"
    /\ UNCHANGED << now, m_active, m_log, m_inputs, m_vars, m_outputs,
                    m_stateSince, m_incoming, m_stop, m_seq, timers_, sent,
                    hookSeen, entered, exec_locals, driver_vars, armCount,
                    lastFire, docId, isInitial, call_vars >>

\* run(): while (!m_stop), read without the mutex: the flag as it is, or the
\* value it had before a concurrent requestStop
LoopTest ==
    /\ pc = "loop_test"
    /\ \E seen \in {m_stop, FALSE} :
          IF seen
          THEN /\ pc' = "returned"
               /\ UNCHANGED << trig, pitRet, pit_i >>
          ELSE CallPIT("", "top")
    /\ UNCHANGED << now, m_active, m_log, m_inputs, m_vars, m_outputs,
                    m_stateSince, m_incoming, m_stop, m_seq, timers_, sent,
                    hookSeen, entered, varSnap, deadline, expired, old, js,
                    lk, driver_vars, armCount, lastFire, docId, isInitial, call_vars >>

\* processImmediateTransitions: makeVarSnapshot and the GuardCtx
PitSnap ==
    /\ pc = "pit_snap"
    /\ varSnap' = MakeVarSnapshot(m_vars)
    /\ pc' = "pit_loop"
    /\ UNCHANGED << now, m_active, m_log, m_inputs, m_vars, m_outputs,
                    m_stateSince, m_incoming, m_stop, m_seq, timers_, sent,
                    hookSeen, entered, trig, pit_i, pitRet, deadline,
                    expired, old, js, lk, driver_vars, armCount, lastFire,
                    docId, isInitial, call_vars >>

\* the next i >= from whose transition leaves m_active on this trigger
RECURSIVE NextCandidate(_)
NextCandidate(from) ==
    IF from >= NTransitions THEN NTransitions
    ELSE IF /\ m_transitions(from).m_src = m_active
            /\ m_transitions(from).m_inputName = trig
         THEN from
         ELSE NextCandidate(from + 1)

\* a drain loop that looks for expired timers after every input
PitReturnToPop == IF pitRet = "top" THEN "next_timeout" ELSE "pop_expired"

\* processImmediateTransitions whose caller takes its result for true and
\* sends a snapshot
PitReturnBroadcasts == "fired"

\* where processImmediateTransitions returns to (its result is always false,
\* so the caller's broadcastSnapshot is never reached)
PitReturn == IF pitRet = "top" THEN "next_timeout" ELSE "drain"

\* what a std::runtime_error leaving isTriggered does to the executor:
\* nothing in processImmediateTransitions, run or the thread body catches it
GuardThrows == "terminated"

\* a loop that leaves after the first transition it arms
PitStopsAfterArm(i) == NTransitions

\* processImmediateTransitions: the loop goes on after scheduler_.arm, there
\* is no break
PitAfterArm(i) == i + 1

\* processImmediateTransitions: the for loop, up to and including the next
\* transition whose guard is evaluated
PitLoop ==
    /\ pc = "pit_loop"
    /\ LET i == NextCandidate(pit_i)
       IN  IF i >= NTransitions
           THEN /\ pc' = PitReturn
                /\ UNCHANGED << pit_i, timers_, armCount >>
           ELSE LET t == m_transitions(i)
                    r == IsTriggered(t, trig, m_inputs, varSnap)
                IN  CASE r = "throw" ->
                           /\ pc' = GuardThrows
                           /\ UNCHANGED << pit_i, timers_, armCount >>
                      [] r = "false" ->
                           /\ pc' = "pit_loop"
                           /\ pit_i' = i + 1
                           /\ UNCHANGED << timers_, armCount >>
                      [] r = "true" ->
                           /\ pc' = "pit_loop"
                           /\ pit_i' = PitAfterArm(i)
                           /\ \E delay \in ArmDelay(t, m_vars) :
                                 timers_' = Arm(timers_, i, delay, now,
                                                armCount)
                           /\ armCount' = armCount + 1
    /\ UNCHANGED << now, m_active, m_log, m_inputs, m_vars, m_outputs,
                    m_stateSince, m_incoming, m_stop, m_seq, sent, hookSeen,
                    entered, trig, varSnap, pitRet, deadline, expired, old,
                    js, lk, driver_vars, lastFire, docId, isInitial, call_vars >>

\* run(): scheduler_.nextTimeout().value_or(24h), start of the wait_for
NextTimeoutStep ==
    /\ pc = "next_timeout"
    /\ deadline' = now + NextTimeout(timers_, now)
    /\ pc' = "wait"
    /\ UNCHANGED << now, m_active, m_log, m_inputs, m_vars, m_outputs,
                    m_stateSince, m_incoming, m_stop, m_seq, timers_, sent,
                    hookSeen, entered, trig, pit_i, varSnap, pitRet, expired,
                    old, js, lk, driver_vars, armCount, lastFire, docId, isInitial, call_vars >>

\* the predicate of the wait_for
WaitPred == m_stop \/ m_incoming # << >>

\* run(): m_cv.wait_for returns (predicate true or time out), then
\* if (m_stop) break, all under m_mtx
Wait ==
    /\ pc = "wait"
    /\ WaitPred \/ now >= deadline
    /\ pc' = IF m_stop THEN "returned" ELSE "pop_expired"
    /\ UNCHANGED << now, m_active, m_log, m_inputs, m_vars, m_outputs,
                    m_stateSince, m_incoming, m_stop, m_seq, timers_, sent,
                    hookSeen, entered, exec_locals, driver_vars, armCount,
                    lastFire, docId, isInitial, call_vars >>

\* run(): now = Clock::now(); scheduler_.popExpired(now)
PopExpiredStep ==
    /\ pc = "pop_expired"
    /\ expired' = PopExpired(timers_, now, << >>)[1]
    /\ timers_' = PopExpired(timers_, now, << >>)[2]
    /\ pc' = "fire_loop"
    /\ UNCHANGED << now, m_active, m_log, m_inputs, m_vars, m_outputs,
                    m_stateSince, m_incoming, m_stop, m_seq, sent, hookSeen,
                    entered, trig, pit_i, varSnap, pitRet, deadline, old, js,
                    lk, driver_vars, armCount, lastFire, docId, isInitial, call_vars >>

\* fireTransition without the stale-timer test
SourceNotTested(t, active) == TRUE

\* fireTransition: the test that lets a timer fire
SourceIsActive(t, active) == t.m_src = active

\* a fireTransition that evaluates the transition's guard again
FireTestWithGuard(t, active, inputs, variables) ==
    /\ SourceIsActive(t, active)
    /\ IsTriggered(t, t.m_inputName, inputs, MakeVarSnapshot(variables))
          = "true"

\* fireTransition: all that is tested before the transition fires is its
\* source; neither the trigger nor the guard is looked at
FireTest(t, active, inputs, variables) == SourceIsActive(t, active)

\* a hook called before m_active is set
HookObservesOld(oldActive, dst) == oldActive

\* fireTransition: the state m_snapshotHook finds in m_active, which has
\* been set to t.dst() before the call
HookObserves(oldActive, dst) == dst

\* run(): the loop over popExpired's result; fireTransition(idx, "") from
\* its entry to the snapshot hook
FireLoop ==
    /\ pc = "fire_loop"
    /\ IF expired = << >>
       THEN /\ pc' = "drain"
            /\ UNCHANGED << m_active, m_log, hookSeen, expired, old,
                            lastFire >>
       ELSE LET idx == Head(expired).transitionIndex
                t   == m_transitions(idx)
            IN  /\ expired' = Tail(expired)
                /\ IF ~FireTest(t, m_active, m_inputs, m_vars)
                   THEN /\ lastFire' = [idx |-> idx, ok |-> FALSE,
                                        before |-> m_active,
                                        actionFailed |-> FALSE,
                                        armed |-> lastFire.armed,
                                        changed |-> lastFire.changed]
                        /\ pc' = "fire_loop"
                        /\ UNCHANGED << m_active, m_log, hookSeen, old >>
                   ELSE /\ old' = m_active
                        /\ m_active' = t.m_dst
                        /\ m_log' = Append(m_log,
                              [timestamp |-> now,
                               state |-> m_states(t.m_dst).id,
                               triggerInput |-> "", triggerValue |-> ""])
                        /\ hookSeen' = Append(hookSeen,
                                               HookObserves(m_active, t.m_dst))
                        /\ lastFire' = [idx |-> idx, ok |-> TRUE,
                                        before |-> m_active,
                                        actionFailed |-> FALSE,
                                        armed |-> armCount,
                                        changed |-> IF t.m_dst # m_active
                                                    THEN armCount
                                                    ELSE lastFire.changed]
                        /\ pc' = "fire_purge"
    /\ UNCHANGED << now, m_inputs, m_vars, m_outputs, m_stateSince,
                    m_incoming, m_stop, m_seq, timers_, sent, entered, trig,
                    pit_i, varSnap, pitRet, deadline, js, lk, driver_vars,
                    armCount, docId, isInitial, call_vars >>

\* m_stateSince reset at every firing
StateSinceAlwaysReset(active, oldActive, since, clock) == clock

\* fireTransition: if (m_active != old) m_stateSince = Clock::now()
StateSince(active, oldActive, since, clock) ==
    IF active # oldActive THEN clock ELSE since

\* fireTransition: purgeForState and the reset of m_stateSince
FirePurge ==
    /\ pc = "fire_purge"
    /\ timers_' = PurgeForState(timers_, m_active)
    /\ m_stateSince' = StateSince(m_active, old, m_stateSince, now)
    /\ pc' = "enter"
    /\ UNCHANGED << now, m_active, m_log, m_inputs, m_vars, m_outputs,
                    m_incoming, m_stop, m_seq, sent, hookSeen, entered,
                    exec_locals, driver_vars, armCount, lastFire, docId, isInitial, call_vars >>

\* an entry action whose error leaves the closure as an exception
AfterActionRethrow(failed) == IF failed THEN "terminated" ELSE "pull"

\* the entry-action closure after fn.call(): the error value is not looked
\* at, pullBack comes next whether or not the script threw
AfterAction(failed) == "pull"

\* fireTransition: Context ctx; m_states[m_active].onEnter(ctx) as far as
\* bindCtx and fn.call()
Enter ==
    /\ pc = "enter"
    /\ js' = RunAction(m_states(m_active).onEnter, BindCtx(m_vars, m_inputs))
    /\ entered' = Append(entered, m_active)
    /\ lastFire' = [lastFire EXCEPT !.actionFailed = js'.failed]
    /\ pc' = AfterAction(js'.failed)
    /\ UNCHANGED << now, m_active, m_log, m_inputs, m_vars, m_outputs,
                    m_stateSince, m_incoming, m_stop, m_seq, timers_, sent,
                    hookSeen, trig, pit_i, varSnap, pitRet, deadline,
                    expired, old, lk, driver_vars, armCount, docId, isInitial, call_vars >>

\* a fireTransition that leaves m_inputs as it is
InputsKept(inputs) == inputs

\* fireTransition: m_inputs.clear()
ClearInputs(inputs) == EmptyMap

\* fireTransition: pullBack at the end of onEnter, then m_inputs.clear()
Pull ==
    /\ pc = "pull"
    /\ m_vars' \in PullBackVars(js, m_vars)
    /\ m_outputs' = PullBackOutputs(js, m_outputs)
    /\ m_inputs' = ClearInputs(m_inputs)
    /\ pc' = "fired"
    /\ UNCHANGED << now, m_active, m_log, m_stateSince, m_incoming, m_stop,
                    m_seq, timers_, sent, hookSeen, entered, exec_locals,
                    driver_vars, armCount, lastFire, docId, isInitial, call_vars >>

\* run(): if (fireTransition(idx, "")) broadcastSnapshot()
Fired ==
    /\ pc = "fired"
    /\ BroadcastSnapshot
    /\ pc' = "fire_loop"
    /\ UNCHANGED << now, m_active, m_log, m_inputs, m_vars, m_outputs,
                    m_stateSince, m_incoming, m_stop, timers_, hookSeen,
                    entered, exec_locals, driver_vars, armCount, lastFire,
                    docId, isInitial, call_vars >>

\* a drain loop that ends by going straight to the computation of the wait
DrainDoneToWait == "next_timeout"

\* run(): where control goes when the drain loop ends: the top of the
\* while (!m_stop) loop, whose first statement is
\* processImmediateTransitions("")
DrainDone == "loop_test"

\* run(): the drain loop: pop one input under m_mtx, record it in m_inputs
\* and evaluate the transitions on it, or leave the loop
Drain ==
    /\ pc = "drain"
    /\ IF m_incoming = << >>
       THEN /\ pc' = DrainDone
            /\ UNCHANGED << m_incoming, m_inputs, trig, pitRet, pit_i >>
       ELSE /\ m_incoming' = Tail(m_incoming)
            /\ m_inputs' = MapPut(m_inputs, Head(m_incoming)[1],
                                  Head(m_incoming)[2])
            /\ CallPIT(Head(m_incoming)[1], "drain")
    /\ UNCHANGED << now, m_active, m_log, m_vars, m_outputs, m_stateSince,
                    m_stop, m_seq, timers_, sent, hookSeen, entered, varSnap,
                    deadline, expired, old, js, lk, driver_vars, armCount,
                    lastFire, docId, isInitial, call_vars >>

\* the positions of run() whose step reads or writes m_stop or m_incoming
SharedAccessAt == {"loop_test", "wait", "drain"}

\* the positions of run() whose step runs with m_mtx locked: the wait_for
\* block and the block around the pop in the drain loop
MutexHeldAt == {"wait", "drain"}

Executor ==
    \/ RunStart \/ LoopTest \/ PitSnap \/ PitLoop \/ NextTimeoutStep
    \/ Wait \/ PopExpiredStep \/ FireLoop \/ FirePurge \/ Enter \/ Pull
    \/ Fired \/ Drain

----------------------------------------------------------------------------
(* Driver thread: the loop of main() in runtime_main.cpp *)

\* what the peer (or stdin) may ask to inject
InjectChoices == { << "in", << "1" >> >>, << "in", << "0" >> >>,
                   << "go", << "1" >> >> }

\* what the peer may ask to set
SetVarNames  == {"timeout", "nosuch"}
SetVarValues == { << "3" >>, << "x" >> }

\* the process is alive and main() has not left its loop for requestStop
DriverRuns == pc # "terminated" /\ ~m_stop

\* an enqueue at the front
EnqueueFront(q, e) == << e >> \o q

\* injectInput: m_incoming.emplace(name, value), at the back of the queue
Enqueue(q, e) == Append(q, e)

\* injectInput that records the value in m_inputs itself
InjectInputApplies(name, value) ==
    /\ DriverRuns
    /\ nInject < MaxInject
    /\ m_incoming' = Enqueue(m_incoming, << name, value >>)
    /\ m_inputs' = MapPut(m_inputs, name, value)
    /\ nInject' = nInject + 1
    /\ UNCHANGED << now, pc, m_active, m_log, m_vars, m_outputs,
                    m_stateSince, m_stop, m_seq, timers_, sent, hookSeen,
                    entered, exec_locals, g_stop, packet, nSetVar,
                    armCount, lastFire, docId, isInitial, call_vars >>

\* Automaton::injectInput
InjectInput(name, value) ==
    /\ DriverRuns
    /\ nInject < MaxInject
    /\ m_incoming' = Enqueue(m_incoming, << name, value >>)
    /\ nInject' = nInject + 1
    /\ UNCHANGED << now, pc, m_active, m_log, m_inputs, m_vars, m_outputs,
                    m_stateSince, m_stop, m_seq, timers_, sent, hookSeen,
                    entered, exec_locals, g_stop, packet, nSetVar,
                    armCount, lastFire, docId, isInitial, call_vars >>

\* setVariable through operator[]: an unknown name becomes a string variable
SetVariableCreates(name, valueStr) ==
    /\ DriverRuns
    /\ nSetVar < MaxSetVar
    /\ nSetVar' = nSetVar + 1
    /\ m_vars' = [n \in DOMAIN m_vars \cup {name} |->
                    IF n # name THEN m_vars[n]
                    ELSE IF name \in DOMAIN m_vars
                         THEN [m_vars[name] EXCEPT !.value =
                                  SetVariableValue(m_vars[name].type, valueStr)]
                         ELSE [type |-> "String", value |-> StrV(valueStr)]]
    /\ UNCHANGED << now, pc, m_active, m_log, m_inputs, m_outputs,
                    m_stateSince, m_incoming, m_stop, m_seq, timers_, sent,
                    hookSeen, entered, exec_locals, g_stop, packet,
                    nInject, armCount, lastFire, docId, isInitial, call_vars >>

\* Automaton::setVariable, called on the driver thread
SetVariable(name, valueStr) ==
    /\ DriverRuns
    /\ nSetVar < MaxSetVar
    /\ nSetVar' = nSetVar + 1
    /\ m_vars' = IF name \notin DOMAIN m_vars THEN m_vars
                 ELSE [m_vars EXCEPT ![name].value =
                          SetVariableValue(m_vars[name].type, valueStr)]
    /\ UNCHANGED << now, pc, m_active, m_log, m_inputs, m_outputs,
                    m_stateSince, m_incoming, m_stop, m_seq, timers_, sent,
                    hookSeen, entered, exec_locals, g_stop, packet,
                    nInject, armCount, lastFire, docId, isInitial, call_vars >>

\* main(): a "shutdown" packet, SIGINT or end of stdin sets g_stop
Shutdown ==
    /\ DriverRuns
    /\ ~g_stop
    /\ g_stop' = TRUE
    /\ UNCHANGED << now, pc, m_active, m_log, m_inputs, m_vars, m_outputs,
                    m_stateSince, m_incoming, m_stop, m_seq, timers_, sent,
                    hookSeen, entered, exec_locals, packet, nInject,
                    nSetVar,
                    armCount, lastFire, docId, isInitial, call_vars >>

\* main() after its loop: Automaton::requestStop
RequestStop ==
    /\ DriverRuns
    /\ g_stop
    /\ m_stop' = TRUE
    /\ UNCHANGED << now, pc, m_active, m_log, m_inputs, m_vars, m_outputs,
                    m_stateSince, m_incoming, m_seq, timers_, sent, hookSeen,
                    entered, exec_locals, driver_vars, armCount, lastFire,
                    docId, isInitial, call_vars >>

Driver ==
    \/ \E c \in InjectChoices : InjectInput(c[1], c[2])
    \/ \E n \in SetVarNames, v \in SetVarValues : SetVariable(n, v)
    \/ Shutdown
    \/ RequestStop

\* the steady clock advances while the process runs
Tick ==
    /\ pc \notin {"terminated", "returned"}
    /\ now < MaxTime
    /\ now' = now + 1
    /\ UNCHANGED << pc, m_active, m_log, m_inputs, m_vars, m_outputs,
                    m_stateSince, m_incoming, m_stop, m_seq, timers_, sent,
                    hookSeen, entered, exec_locals, driver_vars, armCount,
                    lastFire, docId, isInitial, call_vars >>

Next == Executor \/ Driver \/ Tick

Spec == Init /\ [][Next]_vars

\* the executor thread runs whenever it can take a step
FairSpec == Spec /\ WF_vars(Executor)

\* and main(), once out of its loop, goes on to requestStop
FairStopSpec == FairSpec /\ WF_vars(RequestStop)

----------------------------------------------------------------------------
(* run() with the two blocks that lock m_mtx taken apart: the steps made  *)
(* while the unique_lock owns the mutex are steps of their own, and       *)
(* injectInput and requestStop, which lock m_mtx, wait for it             *)

\* run(): m_cv.wait_for(lk, next, pred) returns, lk owning m_mtx again
WaitFor ==
    /\ pc = "wait"
    /\ WaitPred \/ now >= deadline
    /\ lk' = TRUE
    /\ pc' = "wait_test"
    /\ UNCHANGED << now, m_active, m_log, m_inputs, m_vars, m_outputs,
                    m_stateSince, m_incoming, m_stop, m_seq, timers_, sent,
                    hookSeen, entered, trig, pit_i, varSnap, pitRet,
                    deadline, expired, old, js, driver_vars, armCount,
                    lastFire, docId, isInitial, call_vars >>

\* run(): if (m_stop) break; and the end of the block, where lk unlocks
WaitTest ==
    /\ pc = "wait_test"
    /\ lk' = FALSE
    /\ pc' = IF m_stop THEN "returned" ELSE "pop_expired"
    /\ UNCHANGED << now, m_active, m_log, m_inputs, m_vars, m_outputs,
                    m_stateSince, m_incoming, m_stop, m_seq, timers_, sent,
                    hookSeen, entered, trig, pit_i, varSnap, pitRet,
                    deadline, expired, old, js, driver_vars, armCount,
                    lastFire, docId, isInitial, call_vars >>

\* run(), the drain loop: std::unique_lock<std::mutex> lk2(m_mtx)
DrainLock ==
    /\ pc = "drain"
    /\ lk' = TRUE
    /\ pc' = "drain_pop"
    /\ UNCHANGED << now, m_active, m_log, m_inputs, m_vars, m_outputs,
                    m_stateSince, m_incoming, m_stop, m_seq, timers_, sent,
                    hookSeen, entered, trig, pit_i, varSnap, pitRet,
                    deadline, expired, old, js, driver_vars, armCount,
                    lastFire, docId, isInitial, call_vars >>

\* a drain loop whose lock lives until the end of the loop body
LockHeldAfterPop == TRUE

\* run(), the drain loop: lk2 is destroyed at the end of the inner block,
\* before m_inputs is written and processImmediateTransitions is called
LockAfterPop == FALSE

\* run(), the drain loop with lk2 locked: leave on an empty queue, or pop
\* the front entry, unlock, record it and call processImmediateTransitions
DrainPop ==
    /\ pc = "drain_pop"
    /\ IF m_incoming = << >>
       THEN /\ pc' = DrainDone
            /\ lk' = FALSE
            /\ UNCHANGED << m_incoming, m_inputs, trig, pitRet, pit_i >>
       ELSE /\ m_incoming' = Tail(m_incoming)
            /\ lk' = LockAfterPop
            /\ m_inputs' = MapPut(m_inputs, Head(m_incoming)[1],
                                  Head(m_incoming)[2])
            /\ CallPIT(Head(m_incoming)[1], "drain")
    /\ UNCHANGED << now, m_active, m_log, m_vars, m_outputs, m_stateSince,
                    m_stop, m_seq, timers_, sent, hookSeen, entered, varSnap,
                    deadline, expired, old, js, driver_vars, armCount,
                    lastFire, docId, isInitial, call_vars >>

\* the executor, lock by lock
LockExecutor ==
    \/ RunStart \/ LoopTest \/ PitSnap \/ PitLoop \/ NextTimeoutStep
    \/ WaitFor \/ WaitTest \/ PopExpiredStep \/ FireLoop \/ FirePurge
    \/ Enter \/ Pull \/ Fired \/ DrainLock \/ DrainPop

\* the driver: injectInput and requestStop take m_mtx and so wait while the
\* executor owns it; setVariable and g_stop take no lock
LockDriver ==
    \/ ~lk /\ \E c \in InjectChoices : InjectInput(c[1], c[2])
    \/ \E n \in SetVarNames, v \in SetVarValues : SetVariable(n, v)
    \/ Shutdown
    \/ ~lk /\ RequestStop

LockNext == LockExecutor \/ LockDriver \/ Tick

LockSpec == Init /\ [][LockNext]_vars

\* the turn-off-delay document with the peer free to inject and to set
TofSpec == InitOf({"tof"}) /\ [][Next]_vars

----------------------------------------------------------------------------
(* A test run: the document's script is injected, one input every Gap ms, *)
(* and the peer may send shutdown.  Next to a millisecond the executor's  *)
(* steps take no time: the clock advances while it sleeps in wait_for.    *)

\* the test's next injection is due
ScriptDue == nInject < Len(ScriptOf(docId)) /\ now >= nInject * Gap

\* Automaton::injectInput with the next input of the script
ScriptInject ==
    /\ DriverRuns
    /\ ScriptDue
    /\ m_incoming' = Enqueue(m_incoming, ScriptOf(docId)[nInject + 1])
    /\ nInject' = nInject + 1
    /\ UNCHANGED << now, pc, m_active, m_log, m_inputs, m_vars, m_outputs,
                    m_stateSince, m_stop, m_seq, timers_, sent, hookSeen,
                    entered, exec_locals, g_stop, packet, nSetVar,
                    armCount, lastFire, docId, isInitial, call_vars >>

\* the executor is inside wait_for and nothing ends the wait yet
ExecutorBlocked == pc = "wait" /\ ~WaitPred /\ now < deadline

\* the clock value at which a test run is no longer followed
Horizon == Len(ScriptOf(docId)) * Gap + MaxTime + 2

\* a millisecond passes while the executor sleeps and no injection is due
TickQuiet ==
    /\ ExecutorBlocked
    /\ ~ScriptDue
    /\ now < Horizon
    /\ now' = now + 1
    /\ UNCHANGED << pc, m_active, m_log, m_inputs, m_vars, m_outputs,
                    m_stateSince, m_incoming, m_stop, m_seq, timers_, sent,
                    hookSeen, entered, exec_locals, driver_vars, armCount,
                    lastFire, docId, isInitial, call_vars >>

TestNext == Executor \/ ScriptInject \/ Shutdown \/ RequestStop \/ TickQuiet

TestSpec == InitOf(TestIds) /\ [][TestNext]_vars

\* Automaton::injectInput with the next input of the script, whenever the
\* peer sends it
ScriptInjectAnyTime ==
    /\ DriverRuns
    /\ nInject < Len(ScriptOf(docId))
    /\ m_incoming' = Enqueue(m_incoming, ScriptOf(docId)[nInject + 1])
    /\ nInject' = nInject + 1
    /\ UNCHANGED << now, pc, m_active, m_log, m_inputs, m_vars, m_outputs,
                    m_stateSince, m_stop, m_seq, timers_, sent, hookSeen,
                    entered, exec_locals, g_stop, packet, nSetVar,
                    armCount, lastFire, docId, isInitial, call_vars >>

\* the inputs of a script injected at any pace while the executor runs
FifoNext == Executor \/ ScriptInjectAnyTime \/ Tick

FifoSpec == InitOf({"tof", "gate", "gate2"}) /\ [][FifoNext]_vars

\* both threads run, and the clock does not stop
FairTestSpec ==
    /\ TestSpec
    /\ WF_vars(Executor) /\ WF_vars(ScriptInject) /\ WF_vars(RequestStop)
    /\ WF_vars(TickQuiet)

----------------------------------------------------------------------------
(* Building an automaton: a sequence of addState calls *)

\* Automaton::addState(s, initial)
AddState(initial) ==
    /\ Len(isInitial) < MaxStates
    /\ isInitial' = Append(isInitial, initial)
    /\ m_active' = AddStateActive(Len(isInitial) + 1, initial, m_active)
    /\ UNCHANGED << now, pc, m_log, m_inputs, m_vars, m_outputs,
                    m_stateSince, m_incoming, m_stop, m_seq, timers_, sent,
                    hookSeen, entered, exec_locals, driver_vars, armCount,
                    lastFire, docId, call_vars >>

\* a default-constructed Automaton
BuildInit ==
    /\ docId \in DocIds
    /\ m_active = 0
    /\ isInitial = << >>
    /\ m_vars = EmptyMap
    /\ InitMembers
    /\ InitPit
    /\ InitCall

BuildNext == \E initial \in BOOLEAN : AddState(initial)

BuildSpec == BuildInit /\ [][BuildNext]_vars

----------------------------------------------------------------------------
(* loadFile and saveFile: persistence_bridge.cpp *)

\* loadFile's messages: the three warnings and the errors
Warning(kind, t, what) ==
    [kind |-> kind, from |-> t["from"].s, to |-> t["to"].s, what |-> what]
ErrorText(kind) == [kind |-> kind, from |-> "", to |-> "", what |-> ""]

\* loadFile, the sanity checks of one transition
SanityCheck(t, inputs, variables) ==
    LET trg   == ValueOr(t, "trigger")
        guard == ValueOr(t, "guard")
    IN  IF guard # "" /\ trg = ""
        THEN Warning("guard but no trigger", t, "")
        ELSE IF trg # "" /\ trg \notin inputs
        THEN Warning("unknown trigger", t, trg)
        ELSE IF /\ RegexSearch(guard) # ""
                /\ RegexSearch(guard) \notin inputs \cup variables
        THEN Warning("unknown symbol", t, RegexSearch(guard))
        ELSE NoWarning

\* loadFile, the loop over j["transitions"]: it stops at the first warning
RECURSIVE SanityChecks(_, _, _, _)
SanityChecks(ts, k, inputs, variables) ==
    IF k > Len(ts) THEN NoWarning
    ELSE IF SanityCheck(ts[k], inputs, variables) # NoWarning
         THEN SanityCheck(ts[k], inputs, variables)
         ELSE SanityChecks(ts, k + 1, inputs, variables)

\* loadFile: << return value, out, *err >>; "throw" when an exception leaves
\* the function (the sanity checks run outside the try blocks)
LoadFileResult(f, out0, err0) ==
    IF f.kind = "nofile" THEN << "false", out0, ErrorText("Failed to open file") >>
    ELSE IF f.kind # "json" THEN << "false", out0, ErrorText("JSON parse error") >>
    ELSE IF ~Contains(f.j, "inputs") THEN << "throw", out0, err0 >>
    ELSE LET inputs    == { f.j["inputs"][k].s : k \in 1 .. Len(f.j["inputs"]) }
             vs        == IF Contains(f.j, "variables") THEN f.j["variables"]
                          ELSE << >>
             variables == { vs[k]["name"].s : k \in 1 .. Len(vs) }
             ts        == IF Contains(f.j, "transitions")
                          THEN f.j["transitions"] ELSE << >>
             warning   == SanityChecks(ts, 1, inputs, variables)
         IN  IF ~DocumentKeysPresent(f.j)
             THEN << "false", out0, ErrorText("FSM schema error") >>
             ELSE << "true", DocumentFromJson(f.j),
                     IF warning # NoWarning THEN warning ELSE err0 >>

\* loadFile(path, out, &err)
LoadFile ==
    /\ retval' = LoadFileResult(file, out, err)[1]
    /\ out' = LoadFileResult(file, out, err)[2]
    /\ err' = LoadFileResult(file, out, err)[3]
    /\ UNCHANGED << now, pc, m_active, m_log, m_inputs, m_vars, m_outputs,
                    m_stateSince, m_incoming, m_stop, m_seq, timers_, sent,
                    hookSeen, entered, exec_locals, driver_vars, armCount,
                    lastFire, docId, isInitial, file >>

\* saveFile(out, path, pretty, &err) of a loaded document: the file then
\* holds the text of the JSON value, which the parser reads back as that
\* value
SaveFile ==
    /\ retval \in {"true", "saved"}
    /\ file' = [kind |-> "json", j |-> DocumentToJson(out)]
    /\ retval' = "saved"
    /\ UNCHANGED << now, pc, m_active, m_log, m_inputs, m_vars, m_outputs,
                    m_stateSince, m_incoming, m_stop, m_seq, timers_, sent,
                    hookSeen, entered, exec_locals, driver_vars, armCount,
                    lastFire, docId, isInitial, out, err >>

----------------------------------------------------------------------------
(* The files tried, and loadFile and saveFile called on them *)

\* a key that the object does not hold
Absent == [k |-> "absent", n |-> 0, s |-> ""]

\* a transition object A -> B with the optional keys that are not Absent
TransitionJson(trigger, guard, delay_ms) ==
    [key \in {"from", "to"}
              \cup (IF trigger # Absent THEN {"trigger"} ELSE {})
              \cup (IF guard # Absent THEN {"guard"} ELSE {})
              \cup (IF delay_ms # Absent THEN {"delay_ms"} ELSE {}) |->
        CASE key = "from"     -> JStr("A")
          [] key = "to"       -> JStr("B")
          [] key = "trigger"  -> trigger
          [] key = "guard"    -> guard
          [] key = "delay_ms" -> delay_ms]

Triggers == {Absent, JStr(""), JStr("in"), JStr("zz")}
Guards   == {Absent, JStr(GuardIn), JStr(GuardNope), JStr(GuardInNope),
             JStr(GuardTimeout)}
Delays   == {Absent, JNull, JInt(0), JInt(2), JStr("timeout"), JFloat(2),
             JBool(TRUE), JArray, JObject}

\* states written with their default-valued keys
StatesJson ==
    << [id |-> JStr("A"), initial |-> JBool(TRUE)],
       [id |-> JStr("B"), initial |-> JBool(FALSE), onEnter |-> JStr("")] >>

\* one variable "timeout" with the init given, or none for Absent
VariablesJson(type, init) ==
    IF init = Absent THEN << >>
    ELSE << [name |-> JStr("timeout"), type |-> JStr(type), init |-> init] >>

\* a document object: head holds name or id and perhaps comment
DocumentJson(head, variables, transitions) ==
    [key \in DOMAIN head \cup {"inputs", "outputs", "variables", "states",
                               "transitions"} |->
        CASE key \in DOMAIN head  -> head[key]
          [] key = "inputs"       -> << JStr("in") >>
          [] key = "outputs"      -> << JStr("out") >>
          [] key = "variables"    -> variables
          [] key = "states"       -> StatesJson
          [] key = "transitions"  -> transitions]

Heads ==
    { [name |-> JStr("m")],
      [name |-> JStr("m"), comment |-> JStr("c")],
      [id |-> JStr("m")] }

JsonFile(j) == [kind |-> "json", j |-> j]

\* documents of one transition with every trigger, guard and delay_ms;
\* documents of two transitions; the three heads; a document without
\* inputs, one without states, a file that is not JSON, and no file
PersistFiles ==
    { JsonFile(DocumentJson([name |-> JStr("m")], VariablesJson("int", JInt(2)),
                            << TransitionJson(a, b, c) >>))
        : a \in Triggers, b \in Guards, c \in Delays }
    \cup
    { JsonFile(DocumentJson([name |-> JStr("m")], VariablesJson("int", JInt(2)),
                            << TransitionJson(a, b, Absent),
                               TransitionJson(c, d, Absent) >>))
        : a \in Triggers, b \in Guards, c \in Triggers, d \in Guards }
    \cup
    { JsonFile(DocumentJson(h, VariablesJson("int", JInt(2)),
                            << TransitionJson(JStr("in"), Absent, JNull) >>))
        : h \in Heads }
    \cup
    { JsonFile([name |-> JStr("m")]),
      JsonFile([name |-> JStr("m"), inputs |-> << JStr("in") >>]),
      [kind |-> "garbage"], NoFile }

PersistInit ==
    /\ InitBuilt({"mix"})
    /\ file \in PersistFiles
    /\ out = NoDocument
    /\ err = NoWarning
    /\ retval = "none"

PersistNext == LoadFile \/ SaveFile

PersistSpec == PersistInit /\ [][PersistNext]_vars

----------------------------------------------------------------------------
(* From the file to the armed timer: loadFile, buildFromDocument, arm *)

\* the type and init of the variable "timeout" (Absent: not declared)
VarInits ==
    { << "int", Absent >>, << "int", JInt(3) >>, << "int", JInt(0) >>,
      << "int", JInt(0 - 1) >>, << "float", JFloat(2) >>,
      << "int", JStr("x") >>, << "string", JStr("5") >> }

\* documents with one transition A -> B without trigger and guard, with
\* every delay_ms and every declaration of the variable
DelayFiles ==
    { JsonFile(DocumentJson([name |-> JStr("m")], VariablesJson(v[1], v[2]),
                            << TransitionJson(Absent, Absent, c) >>))
        : c \in Delays \cup {JStr("")}, v \in VarInits }

\* a default-constructed Automaton and a file
DelayInit ==
    /\ docId = "none"
    /\ m_active = 0
    /\ isInitial = << >>
    /\ m_vars = EmptyMap
    /\ InitMembers
    /\ InitPit
    /\ file \in DelayFiles
    /\ out = NoDocument
    /\ err = NoWarning
    /\ retval = "none"

\* buildFromDocument(out, fsm) after a successful loadFile
BuildCall ==
    /\ retval = "true"
    /\ docId = "none"
    /\ docId' = "file"
    /\ m_vars' = InitVars(BuildFromDocument(out))
    /\ m_active' = AddStates(BuildFromDocument(out).states, 1, 0)
    /\ isInitial' = [k \in 1 .. Len(out.states) |-> out.states[k].initial]
    /\ retval' = "built"
    /\ UNCHANGED << now, pc, m_log, m_inputs, m_outputs, m_stateSince,
                    m_incoming, m_stop, m_seq, timers_, sent, hookSeen,
                    entered, exec_locals, driver_vars, armCount, lastFire,
                    file, out, err >>

\* processImmediateTransitions: the delay and scheduler_.arm(i, delay) for
\* transition 0 of the automaton built
ArmCall ==
    /\ docId = "file"
    /\ armCount = 0
    /\ \E delay \in ArmDelay(m_transitions(0), m_vars) :
          timers_' = Arm(timers_, 0, delay, now, armCount)
    /\ armCount' = armCount + 1
    /\ retval' = "arm"
    /\ UNCHANGED << now, pc, m_active, m_log, m_inputs, m_vars, m_outputs,
                    m_stateSince, m_incoming, m_stop, m_seq, sent, hookSeen,
                    entered, exec_locals, driver_vars, lastFire, docId,
                    isInitial, file, out, err >>

DelayNext == LoadFile \/ BuildCall \/ ArmCall

DelaySpec == DelayInit /\ [][DelayNext]_vars

----------------------------------------------------------------------------
(* main(): the datagrams polled from the channel and what is called for   *)
(* each of them                                                           *)

\* a datagram whose text is no JSON, one whose text is a JSON value that is
\* no object, and one whose text is an object
Garbage == [kind |-> "garbage"]
JsonValue(v) == [kind |-> "value", v |-> v]
Message(type, name, value) ==
    LET all == [type |-> type, name |-> name, value |-> value]
    IN  [kind |-> "object",
         j |-> [key \in { x \in {"type", "name", "value"} : all[x] # Absent }
                  |-> all[key]]]

\* the datagrams the peer sends
Datagrams ==
    { Garbage, JsonValue(JNull), JsonValue(JInt(5)), JsonValue(JArray) }
    \cup { Message(JStr(t), n, v) :
               t \in {"inject", "setVar"},
               n \in {JStr("in"), JStr("timeout"), JInt(1), Absent},
               v \in {JStr("1"), JStr("x"), JInt(1), Absent} }
    \cup { Message(t, Absent, Absent) :
               t \in {JStr("shutdown"), JStr("hello"), JStr(""), JInt(7),
                      Absent} }

NoCall == [call |-> "none", name |-> "", value |-> ""]
Throws == [call |-> "throw", name |-> "", value |-> ""]

\* j.at("name").get<std::string>() and j.at("value").get<std::string>():
\* out_of_range for a missing key, type_error for a value that is no string
HasStrings(j) ==
    /\ Contains(j, "name") /\ j["name"].k = "string"
    /\ Contains(j, "value") /\ j["value"].k = "string"

\* main, the body of while (chan->poll(p)) on a parsed object: the type is
\* j.value("type", ""), a type_error when the key holds no string
Dispatch(j) ==
    CASE ~Contains(j, "type") -> NoCall
      [] Contains(j, "type") /\ j["type"].k # "string" -> Throws
      [] Contains(j, "type") /\ j["type"].k = "string" ->
            CASE j["type"].s = "inject" ->
                    IF HasStrings(j)
                    THEN [call |-> "injectInput", name |-> j["name"].s,
                          value |-> j["value"].s]
                    ELSE Throws
              [] j["type"].s = "setVar" ->
                    IF HasStrings(j)
                    THEN [call |-> "setVariable", name |-> j["name"].s,
                          value |-> j["value"].s]
                    ELSE Throws
              [] j["type"].s = "shutdown" ->
                    [call |-> "g_stop", name |-> "", value |-> ""]
              [] OTHER -> NoCall

\* what main does with the datagram p: json::parse without exceptions and
\* is_discarded() drop text that is no JSON; value() on a JSON value that
\* is no object is a type_error
CallFor(p) ==
    CASE p.kind = "garbage" -> NoCall
      [] p.kind = "value"   -> Throws
      [] p.kind = "object"  -> Dispatch(p.j)

\* Automaton::setVariable(name, valueStr) on the variables
SetVariableIn(variables, name, valueStr) ==
    IF name \notin DOMAIN variables THEN variables
    ELSE [variables EXCEPT ![name].value =
             SetVariableValue(variables[name].type, valueStr)]

\* chan->poll(p) returns a datagram and main handles it; nothing in main
\* catches an exception, which ends the process
Poll ==
    /\ DriverRuns
    /\ \E p \in Datagrams :
          LET c == CallFor(p)
          IN  /\ packet' = p
              /\ c.call = "injectInput" => nInject < MaxInject
              /\ c.call = "setVariable" => nSetVar < MaxSetVar
              /\ m_incoming' =
                    IF c.call = "injectInput"
                    THEN Enqueue(m_incoming, << c.name, Chars(c.value) >>)
                    ELSE m_incoming
              /\ nInject' = IF c.call = "injectInput" THEN nInject + 1
                            ELSE nInject
              /\ m_vars' =
                    IF c.call = "setVariable"
                    THEN SetVariableIn(m_vars, c.name, Chars(c.value))
                    ELSE m_vars
              /\ nSetVar' = IF c.call = "setVariable" THEN nSetVar + 1
                            ELSE nSetVar
              /\ g_stop' = IF c.call = "g_stop" THEN TRUE ELSE g_stop
              /\ pc' = IF c.call = "throw" THEN "terminated" ELSE pc
    /\ UNCHANGED << now, m_active, m_log, m_inputs, m_outputs, m_stateSince,
                    m_stop, m_seq, timers_, sent, hookSeen, entered,
                    exec_locals, armCount, lastFire, docId, isInitial,
                    call_vars >>

\* the driver alone: datagrams arrive until main leaves its loop
PacketNext == Poll \/ RequestStop

PacketSpec == InitOf({"tof"}) /\ [][PacketNext]_vars

----------------------------------------------------------------------------
(* Transition::isTriggered called on its own *)

TrigDocs == {"mix", "tof", "gate", "imm"}

\* the incomingInput arguments tried
TrigInputs == {"", "in", "go", "tick"}

\* the ctx.inputs maps tried
TrigMaps ==
    { EmptyMap, MapPut(EmptyMap, "in", << "1" >>),
      MapPut(EmptyMap, "in", << "0" >>),
      MapPut(EmptyMap, "enable", << "0" >>) }

\* a transition of a built automaton, an input name and a GuardCtx
TrigInit ==
    /\ docId \in TrigDocs
    /\ m_active = AddStates(DocOf(docId).states, 1, 0)
    /\ isInitial = [k \in 1..Len(DocOf(docId).states) |->
                       DocOf(docId).states[k].initial]
    /\ m_vars = InitVars(DocOf(docId))
    /\ pit_i \in 0 .. NTransitions - 1
    /\ trig \in TrigInputs
    /\ m_inputs \in TrigMaps
    /\ varSnap = MakeVarSnapshot(m_vars)
    /\ InitMembers
    /\ InitCall

\* m_transitions[pit_i].isTriggered(trig, GuardCtx{varSnap, m_inputs})
CallIsTriggered ==
    /\ retval = "none"
    /\ retval' = IsTriggered(m_transitions(pit_i), trig, m_inputs, varSnap)
    /\ UNCHANGED << now, pc, m_active, m_log, m_inputs, m_vars, m_outputs,
                    m_stateSince, m_incoming, m_stop, m_seq, timers_, sent,
                    hookSeen, entered, exec_locals, driver_vars, armCount,
                    lastFire, docId, isInitial, file, out, err >>

TrigSpec == TrigInit /\ [][CallIsTriggered]_vars

----------------------------------------------------------------------------
(* The Scheduler called on its own: arm, popExpired, purgeForState *)

MaxArm == 3         \* arm calls

\* the delays given to arm
SchedDelays == 0 .. 2

\* scheduler_.arm(idx, delay)
SchedArm(idx, delay) ==
    /\ armCount < MaxArm
    /\ timers_' = Arm(timers_, idx, delay, now, armCount)
    /\ armCount' = armCount + 1
    /\ retval' = "arm"
    /\ UNCHANGED << now, pc, m_active, m_log, m_inputs, m_vars, m_outputs,
                    m_stateSince, m_incoming, m_stop, m_seq, sent, hookSeen,
                    entered, exec_locals, driver_vars, lastFire, docId,
                    isInitial, file, out, err >>

\* expired = scheduler_.popExpired(Clock::now())
SchedPop ==
    /\ expired' = PopExpired(timers_, now, << >>)[1]
    /\ timers_' = PopExpired(timers_, now, << >>)[2]
    /\ retval' = "popExpired"
    /\ UNCHANGED << now, pc, m_active, m_log, m_inputs, m_vars, m_outputs,
                    m_stateSince, m_incoming, m_stop, m_seq, sent, hookSeen,
                    entered, trig, pit_i, varSnap, pitRet, deadline, old, js,
                    lk, driver_vars, armCount, lastFire, docId, isInitial,
                    file, out, err >>

\* m_active = s; scheduler_.purgeForState(m_active, getSrc)
SchedPurge(s) ==
    /\ m_active' = s
    /\ timers_' = PurgeForState(timers_, s)
    /\ retval' = "purgeForState"
    /\ UNCHANGED << now, pc, m_log, m_inputs, m_vars, m_outputs,
                    m_stateSince, m_incoming, m_stop, m_seq, sent, hookSeen,
                    entered, exec_locals, driver_vars, armCount, lastFire,
                    docId, isInitial, file, out, err >>

SchedNext ==
    \/ \E idx \in 0 .. NTransitions - 1, delay \in SchedDelays :
          SchedArm(idx, delay)
    \/ SchedPop
    \/ \E s \in 0 .. Len(DocOf(docId).states) - 1 : SchedPurge(s)
    \/ Tick

SchedSpec == InitOf({"tof"}) /\ [][SchedNext]_vars

----------------------------------------------------------------------------
(* Properties *)

SrcOf(timer) == m_transitions(timer.transitionIndex).m_src

InitialState == AddStates(DocOf(docId).states, 1, 0)

\* fireTransition has changed m_active and has not returned yet
InFire == pc \in {"fire_purge", "enter", "pull"}

\* C1: outside the interval between the update of m_active and the purge,
\* every pending timer belongs to a transition leaving the active state.
C1_TimersLeaveActive ==
    pc # "fire_purge" =>
        \A k \in 1..Len(timers_) : SrcOf(timers_[k]) = m_active

\* a state change has happened and timers of the new state are pending
C1_Witness ==
    /\ pc = "wait"
    /\ m_log # << >>
    /\ timers_ # << >>

\* C2: fireTransition on a transition whose source is not active returns
\* false and changes nothing; a timer that fires leaves the state that was
\* active before.
C2_StaleTimerDoesNothing ==
    [][ (pc = "fire_loop" /\ expired' # expired) =>
           LET t == m_transitions(Head(expired).transitionIndex)
           IN  IF t.m_src # m_active
               THEN /\ ~lastFire'.ok
                    /\ pc' = "fire_loop"
                    /\ UNCHANGED << m_active, m_log, m_inputs, timers_,
                                    m_stateSince, hookSeen, entered, m_vars,
                                    m_outputs, m_seq, sent >>
               ELSE /\ lastFire'.ok
                    /\ lastFire'.before = t.m_src
                    /\ m_active' = t.m_dst ]_vars

\* a popped timer was rejected as stale
C2_Witness == lastFire.idx >= 0 /\ ~lastFire.ok

\* C3: snapshots carry seq 1, 2, 3, ...: one at startup, one after each
\* successful fireTransition, none otherwise.
C3_SeqCountsStateChanges ==
    /\ \A k \in 1..Len(sent) : sent[k].seq = k
    /\ Len(sent) = (IF pc = "start" THEN 0 ELSE 1) + Len(m_log)
                   - (IF InFire \/ pc = "fired" THEN 1 ELSE 0)

\* two state changes have been broadcast
C3_Witness == Len(sent) = 3 /\ Len(m_log) = 2 /\ pc = "fire_loop"

\* C4: on_enter runs once per entry, the entry into the initial state at
\* the start of run() included.
C4_EntryActionPerEntry ==
    pc # "start" =>
        /\ entered # << >>
        /\ entered[1] = InitialState
        /\ Len(entered) = 1 + Len(m_log)
                          - (IF pc \in {"fire_purge", "enter"} THEN 1 ELSE 0)

\* C5: once requestStop has set the flag, run() returns.
C5_StopLeadsToReturn == m_stop ~> (pc = "returned")

\* C6: only the executor mutates the variables: m_vars changes only in the
\* executor's pull-back step.
C6_OnlyExecutorWritesVars ==
    [][ m_vars' # m_vars => (pc = "pull" /\ pc' = "fired") ]_vars

\* C7: a guard that raises a runtime error counts as not triggered: nothing
\* is armed for it and the executor goes on with the next transition.
C7_GuardErrorIsNotTriggered ==
    [][ ( /\ pc = "pit_loop"
          /\ NextCandidate(pit_i) < NTransitions
          /\ IsTriggered(m_transitions(NextCandidate(pit_i)), trig,
                         m_inputs, varSnap) = "throw"
          /\ << pc, pit_i >>' # << pc, pit_i >> ) =>
        ( /\ pc' = "pit_loop"
          /\ pit_i' = NextCandidate(pit_i) + 1
          /\ timers_' = timers_ ) ]_vars

\* C8: when the entry action fails, the state change stays in effect (active
\* is the destination, the event is logged, m_inputs is cleared, the snapshot
\* is sent) and the executor goes on.
C8_ActionErrorKeepsStateChange ==
    [][ /\ (pc = "enter" /\ pc' # pc /\ js'.failed) => pc' = "pull"
        /\ (pc = "pull" /\ pc' # pc /\ lastFire.actionFailed) =>
              /\ pc' = "fired"
              /\ m_active' = m_transitions(lastFire.idx).m_dst
              /\ m_log'[Len(m_log')].state = m_states(m_active').id
              /\ m_inputs' = EmptyMap
        /\ (pc = "fired" /\ pc' # pc /\ lastFire.actionFailed) =>
              /\ pc' = "fire_loop"
              /\ Len(sent') = Len(sent) + 1
              /\ sent'[Len(sent')].state =
                    m_states(m_transitions(lastFire.idx).m_dst).id ]_vars

\* the snapshot of a state whose entry action threw has been sent
C8_Witness ==
    /\ lastFire.ok /\ lastFire.actionFailed
    /\ pc = "fire_loop"
    /\ sent[Len(sent)].state = m_states(m_active).id

\* the timer a step has just armed
Armed(h, n) == CHOOSE x \in {h[k] : k \in 1..Len(h)} : x.ord = n

\* C9: setVariable leaves every pending timer as it is, and a transition
\* delayed by a variable is armed with the integer the variable holds at
\* that moment.
C9_VariableDelayReadAtArm ==
    [][ /\ (nSetVar' # nSetVar => timers_' = timers_)
        /\ (armCount' # armCount =>
              LET x == Armed(timers_', armCount)
                  t == m_transitions(x.transitionIndex)
              IN  (t.m_delayVarName \in DOMAIN m_vars
                   /\ m_vars[t.m_delayVarName].value.t = "int") =>
                     x.at = now + m_vars[t.m_delayVarName].value.v) ]_vars

\* transition 0 is pending twice: armed with the old delay before setVariable
\* and with the new delay after it
C9_Witness ==
    /\ m_vars["timeout"].value = IntV(3)
    /\ \E j, k \in 1..Len(timers_) :
          /\ timers_[j].transitionIndex = 0 /\ timers_[k].transitionIndex = 0
          /\ timers_[j].ord < timers_[k].ord
          /\ timers_[j].at - 2 = timers_[k].at - 3

\* C10: expired timers are fired in ascending due time, equal due times in
\* the order of arming.
C10_ExpiredInDueThenArmOrder ==
    \A i, j \in 1..Len(expired) :
        i < j => \/ expired[i].at < expired[j].at
                 \/ (expired[i].at = expired[j].at
                     /\ expired[i].ord < expired[j].ord)

\* fireTransition is running, or about to run, for a popped timer
Firing == InFire \/ (pc = "fire_loop" /\ expired # << >>)

\* C11: while a timer's transition is being fired (state update, purge,
\* entry action), an input injected by the driver only joins m_incoming: it
\* is not written to m_inputs and no guard is evaluated; inputs leave the
\* queue in the drain loop only.
C11_InjectedInputWaitsForFire ==
    [][ /\ Firing =>
              /\ Len(m_incoming') >= Len(m_incoming)
              /\ SubSeq(m_incoming', 1, Len(m_incoming)) = m_incoming
              /\ m_inputs' = m_inputs \/ (pc = "pull" /\ m_inputs' = EmptyMap)
              /\ pc' \notin {"pit_snap", "pit_loop"}
              /\ armCount' = armCount
        /\ Len(m_incoming') < Len(m_incoming) => pc = "drain" ]_vars

\* two inputs wait in the queue while an entry action is about to run
C11_Witness ==
    /\ pc = "enter"
    /\ Len(m_incoming) = 2
    /\ m_inputs = EmptyMap

\* the state fields of the snapshots sent so far
SentStates == [k \in 1..Len(sent) |-> sent[k].state]

IsPrefix(s, u) == Len(s) <= Len(u) /\ SubSeq(u, 1, Len(s)) = s

TofStates == << "IDLE", "ACTIVE", "TIMING", "IDLE" >>

\* C12: for the turn-off-delay document with in=1 injected, in=0 injected
\* Gap ms later and nothing after, the snapshots' state fields are IDLE,
\* ACTIVE, TIMING, IDLE in that order: never anything else, and all four
\* unless the run is stopped.
C12_TofSnapshotSequence ==
    (docId = "tof") =>
        /\ [](IsPrefix(SentStates, TofStates))
        /\ <>(m_stop \/ SentStates = TofStates)

\* the fourth snapshot of the turn-off-delay run has been sent
C12_Witness ==
    /\ docId = "tof"
    /\ ~g_stop
    /\ nInject = 2
    /\ SentStates = TofStates

\* the last value recorded for the input enable is "1"
EnableIs1 == "enable" \in DOMAIN m_inputs /\ m_inputs["enable"] = << "1" >>

\* C13: A --tick--> B guarded by valueof("enable") == "1" is armed only
\* while the last recorded enable is "1".  After enable=0, tick=go the
\* active state is A, and after the following enable=1, tick=go it becomes
\* B (unless the run is stopped); with tick=go before enable=1 and after
\* enable=0 it stays A.
C13_GuardFalseSuppresses ==
    /\ [][ (docId \in {"gate", "gate2"} /\ armCount' # armCount)
              => EnableIs1 ]_vars
    /\ []((docId = "gate2" \/ (docId = "gate" /\ nInject <= 3))
              => m_active = 0)
    /\ <>(docId # "gate" \/ m_stop \/ m_active = 1)

\* tick=go was evaluated under enable=0 and armed nothing; B was entered
\* after enable=1, tick=go
C13_Witness ==
    /\ docId = "gate"
    /\ ~g_stop
    /\ nInject = 4
    /\ armCount = 1
    /\ m_active = 1
    /\ pc = "wait"

\* the transitions that leave the initial state with empty trigger and no
\* delay, and whose guard holds on the variables as built
StartupImmediate ==
    { i \in 0..(NTransitions - 1) :
        LET t == m_transitions(i)
        IN  /\ t.m_src = InitialState
            /\ t.m_inputName = ""
            /\ t.m_delay = 0 /\ t.m_delayVarName = ""
            /\ IsTriggered(t, "", EmptyMap,
                           MakeVarSnapshot(InitVars(DocOf(docId)))) = "true" }

\* C14: when the initial state has an immediate transition with empty
\* trigger whose guard holds at startup, run() fires one of these and sends a
\* snapshot after the initial one, unless stop is requested first.
C14_StartupImmediateFires ==
    (StartupImmediate # {}) =>
        <>(m_stop \/ ( /\ m_log # << >>
                       /\ \E i \in StartupImmediate :
                             hookSeen[1] = m_transitions(i).m_dst
                       /\ Len(sent) >= 2
                       /\ sent[2].state # sent[1].state ))

\* the immediate transition has fired and its snapshot is out, no stop asked
C14_Witness ==
    /\ StartupImmediate # {}
    /\ ~g_stop
    /\ Len(sent) = 2
    /\ sent[2].state = "S1"

\* run() has returned: nothing is fired, sent or taken from the queue any
\* more, whatever is still due or queued
QuietOnceStopSeen ==
    [][ pc = "returned" =>
          UNCHANGED << pc, m_active, m_log, sent, entered, timers_,
                       m_incoming, m_inputs, m_vars >> ]_vars

\* C15: after a shutdown message the driver calls requestStop and the
\* executor's run() returns, so that the join ends; once the executor has
\* seen the flag it fires no transition and sends no snapshot any more.
C15_ShutdownStopsEngine ==
    /\ g_stop ~> (pc = "returned")
    /\ QuietOnceStopSeen

\* C16: an input enqueued by injectInput is taken from the queue by the
\* executor and written to m_inputs, unless stop is requested: the queue
\* does not stay non-empty for ever.
C16_QueuedInputIsDrained ==
    /\ (m_incoming # << >>) ~> (m_incoming = << >> \/ m_stop)
    /\ [][ Len(m_incoming') < Len(m_incoming) =>
              /\ m_incoming' = Tail(m_incoming)
              /\ Head(m_incoming)[1] \in DOMAIN m_inputs'
              /\ m_inputs'[Head(m_incoming)[1]] = Head(m_incoming)[2] ]_vars

\* the addState calls that had initial = true
Flagged == { k \in 1..Len(isInitial) : isInitial[k] }

\* C17: after any sequence of addState calls the active state is the last
\* one added with initial = true, and the first one added when no call had
\* initial = true.
C17_ActiveIsLastInitial ==
    isInitial # << >> =>
        IF Flagged = {}
        THEN m_active = 0
        ELSE /\ m_active + 1 \in Flagged
             /\ \A k \in Flagged : k <= m_active + 1

\* two states were added with initial = true and another one after them
C17_Witness ==
    /\ isInitial = << FALSE, TRUE, TRUE, FALSE >>
    /\ m_active = 2

\* C18: m_inputs is empty right after every successful fireTransition;
\* between firings each input taken from the queue replaces the value held
\* for its name and leaves the other names alone, and nothing else changes
\* m_inputs.
C18_InputsHoldLastSeenSinceFire ==
    [][ /\ (pc = "pull" /\ pc' = "fired") => m_inputs' = EmptyMap
        /\ Len(m_incoming') < Len(m_incoming) =>
              LET n == Head(m_incoming)[1]
              IN  /\ DOMAIN m_inputs' = DOMAIN m_inputs \cup {n}
                  /\ m_inputs'[n] = Head(m_incoming)[2]
                  /\ \A k \in DOMAIN m_inputs \ {n} :
                        m_inputs'[k] = m_inputs[k]
        /\ m_inputs' # m_inputs =>
              \/ Len(m_incoming') < Len(m_incoming)
              \/ (pc = "pull" /\ pc' = "fired") ]_vars

\* in=1 was drained (its transition is armed) and in=0, drained after it
\* with no firing in between, has replaced it
C18_Witness ==
    /\ m_log = << >>
    /\ m_incoming = << >>
    /\ nInject = 2
    /\ \E k \in 1..Len(timers_) : timers_[k].transitionIndex = 2
    /\ m_inputs = [n \in {"in"} |-> << "0" >>]

\* C19: setVariable with a name that is not a declared variable changes
\* nothing: no variable appears, none changes, and the threads go on as
\* they were.
C19_UnknownVariableIgnored ==
    [][ \A n \in SetVarNames \ DOMAIN m_vars, v \in SetVarValues :
           SetVariable(n, v) =>
              /\ m_vars' = m_vars
              /\ pc' = pc
              /\ UNCHANGED << m_inputs, m_incoming, m_outputs, timers_,
                              sent >> ]_vars

\* setVariable was called and the variables are as built: the name was not
\* a declared one (either value offered for timeout would have changed it)
C19_Witness ==
    /\ nSetVar = 1
    /\ m_log = << >>
    /\ m_vars = InitVars(DocOf(docId))
    /\ pc # "start"

\* C20: every step of the executor that reads or writes m_stop or
\* m_incoming runs with m_mtx locked, so that a test of m_stop made after
\* requestStop sees the flag set.
C20_SharedStateUnderMutex ==
    [][ (pc' # pc /\ pc \in SharedAccessAt) =>
           /\ pc \in MutexHeldAt
           /\ (pc \in {"loop_test", "wait"} /\ m_stop) => pc' = "returned"
      ]_vars

\* the transitions processImmediateTransitions("") arms in the active state:
\* those that leave it, have no trigger, and whose guard is absent or true
Unconditional ==
    { i \in 0 .. NTransitions - 1 :
         /\ m_transitions(i).m_src = m_active
         /\ m_transitions(i).m_inputName = ""
         /\ IsTriggered(m_transitions(i), "", m_inputs, varSnap) = "true" }

\* C21: whenever the executor blocks in the wait after a transition has
\* fired, every unconditional transition leaving the active state has a
\* pending timer that was armed after that fire.
C21_UnconditionalArmedBeforeWait ==
    (pc = "wait" /\ m_log # << >>) =>
       \A i \in Unconditional :
          \E k \in 1 .. Len(timers_) :
             /\ timers_[k].transitionIndex = i
             /\ timers_[k].ord >= lastFire.armed

\* the executor waits in a state it entered by a fire and that has an
\* unconditional transition, whose timer is pending
C21_Witness ==
    /\ pc = "wait"
    /\ m_log # << >>
    /\ m_active # InitialState
    /\ Unconditional # {}
    /\ \E k \in 1 .. Len(timers_) :
          /\ timers_[k].transitionIndex \in Unconditional
          /\ timers_[k].ord >= lastFire.armed

\* the transitions of the active state that the running
\* processImmediateTransitions(trig) finds triggered
Triggerable ==
    { i \in 0 .. NTransitions - 1 :
         /\ m_transitions(i).m_src = m_active
         /\ m_transitions(i).m_inputName = trig
         /\ IsTriggered(m_transitions(i), trig, m_inputs, varSnap) = "true" }

\* processImmediateTransitions returns with a timer pending for every
\* transition it found triggered
AllTriggerableArmed ==
    [][ (pc = "pit_loop" /\ pc' \in {"next_timeout", "drain"}) =>
           \A i \in Triggerable :
              \E k \in 1 .. Len(timers_') :
                 timers_'[k].transitionIndex = i ]_vars

\* a timer fires although a transition has fired since it was armed
C23_NoneOfTheOthersFires ==
    [][ (pc = "fire_loop" /\ expired' # expired /\ lastFire'.ok) =>
           Head(expired).ord >= lastFire.armed ]_vars

\* C23: all the transitions of the active state that are triggered together
\* are armed; a timer fires only if no transition into a different state has
\* fired since it was armed (after a self-loop the other timers of the state
\* stay pending and can still fire).
C23_FirstToLeaveWins ==
    /\ AllTriggerableArmed
    /\ [][ (pc = "fire_loop" /\ expired' # expired /\ lastFire'.ok) =>
              Head(expired).ord >= lastFire.changed ]_vars

\* three timers were armed in the initial state, one of them fired into
\* another state and the other two are gone
C23_Witness ==
    /\ pc = "fired"
    /\ lastFire.ok
    /\ lastFire.changed >= 3
    /\ m_active # InitialState
    /\ timers_ = << >>

\* the guard of t is absent or comes out true on the context given
GuardHolds(t, inputs, snap) ==
    \/ t.guard.kind = "none"
    \/ /\ t.guard.kind = "valueof_eq"
       /\ GuardValueof(t.guard.name, inputs, snap) = t.guard.val

\* C28: isTriggered(e, ctx) returns true exactly when e is the transition's
\* trigger and the guard is absent or true on ctx; with another e it returns
\* false without calling the guard (a guard that would raise does not), so
\* a transition without trigger is not triggered by any named input.
C28_IsTriggeredExact ==
    retval # "none" =>
       LET t == m_transitions(pit_i)
       IN  /\ retval = "true" <=>
                 (trig = t.m_inputName /\ GuardHolds(t, m_inputs, varSnap))
           /\ trig # t.m_inputName => retval = "false"
           /\ (t.m_inputName = "" /\ trig # "") => retval = "false"

\* a transition without trigger was asked about a named input
C28_Witness ==
    /\ retval = "false"
    /\ trig = "in"
    /\ m_transitions(pit_i).m_inputName = ""

\* the timers in a queue or a vector, as a set (every timer has its own ord)
TimerSet(q) == { q[k] : k \in 1 .. Len(q) }

\* C29: popExpired(now) removes and returns exactly the timers with
\* at <= now, in ascending order of at; every timer left has at > now and
\* the timers left are the others, unchanged.
C29_PopExpiredExact ==
    [][ SchedPop =>
           LET due == { x \in TimerSet(timers_) : x.at <= now }
           IN  /\ TimerSet(expired') = due
               /\ Len(expired') = Cardinality(due)
               /\ \A k \in 1 .. Len(expired') - 1 :
                     expired'[k].at <= expired'[k + 1].at
               /\ \A x \in TimerSet(timers_') : x.at > now
               /\ TimerSet(timers_') = TimerSet(timers_) \ due
               /\ Len(timers_') = Len(timers_) - Cardinality(due) ]_vars

\* popExpired returned two timers of different due times, one of them due
\* exactly now, and left one
C29_Witness ==
    /\ retval = "popExpired"
    /\ Len(expired) = 2
    /\ expired[1].at < expired[2].at
    /\ expired[2].at = now
    /\ Len(timers_) = 1

\* C30: purgeForState(s) leaves exactly the pending timers whose
\* transition leaves s, each with its due time, and removes the others;
\* purging again leaves the same timers.
C30_PurgeKeepsSourceTimers ==
    [][ \A s \in 0 .. Len(DocOf(docId).states) - 1 :
           SchedPurge(s) =>
              LET kept == { x \in TimerSet(timers_) : SrcOf(x) = s }
              IN  /\ TimerSet(timers_') = kept
                  /\ Len(timers_') = Cardinality(kept)
                  /\ TimerSet(PurgeForState(timers_', s)) = kept
                  /\ Len(PurgeForState(timers_', s)) = Cardinality(kept) ]_vars

\* a purge kept two timers and removed one
C30_Witness ==
    /\ retval = "purgeForState"
    /\ Len(timers_) = 2
    /\ expired = << >>
    /\ armCount = 3

\* the static checks a transition object violates: a guard without trigger,
\* a trigger that is no declared input, a guard naming in some valueof("X")
\* an X that is neither an input nor a variable
Violates(t, inputs, variables) ==
    \/ ValueOr(t, "guard") # "" /\ ValueOr(t, "trigger") = ""
    \/ ValueOr(t, "trigger") # "" /\ ValueOr(t, "trigger") \notin inputs
    \/ ~(ValueofNames(ValueOr(t, "guard")) \subseteq inputs \cup variables)

\* the declared inputs and variables of a document object
InputsOf(j)    == { j["inputs"][k].s : k \in 1 .. Len(j["inputs"]) }
VariablesOf(j) == { j["variables"][k]["name"].s
                       : k \in 1 .. Len(j["variables"]) }

\* the positions of the violating transitions of a document object
Violating(j) ==
    { k \in 1 .. Len(j["transitions"]) :
         Violates(j["transitions"][k], InputsOf(j), VariablesOf(j)) }

\* C24: loadFile of a document with a transition that violates a static
\* check returns true and the document of the file, and writes to err one
\* warning, about the first violating transition in document order.
C24_FirstWarningOnly ==
    [][ (LoadFile /\ file.kind = "json" /\ DocumentKeysPresent(file.j)
           /\ Violating(file.j) # {}) =>
           LET first == CHOOSE k \in Violating(file.j) :
                           \A l \in Violating(file.j) : k <= l
           IN  /\ retval' = "true"
               /\ out' = DocumentFromJson(file.j)
               /\ err' # NoWarning
               /\ err' = SanityCheck(file.j["transitions"][first],
                                     InputsOf(file.j), VariablesOf(file.j))
      ]_vars

\* the same with loadFile's own test of a guard, which looks at the leftmost
\* valueof("X") only
LeftmostOnly(j) ==
    { k \in 1 .. Len(j["transitions"]) :
         SanityCheck(j["transitions"][k], InputsOf(j), VariablesOf(j))
            # NoWarning }

\* loadFile of a document in which some transition fails loadFile's own
\* tests returns true, the document, and the warning of the first such
\* transition
WarnsOnLeftmostOnly ==
    [][ (LoadFile /\ file.kind = "json" /\ DocumentKeysPresent(file.j)
           /\ LeftmostOnly(file.j) # {}) =>
           LET first == CHOOSE k \in LeftmostOnly(file.j) :
                           \A l \in LeftmostOnly(file.j) : k <= l
           IN  /\ retval' = "true"
               /\ out' = DocumentFromJson(file.j)
               /\ err' = SanityCheck(file.j["transitions"][first],
                                     InputsOf(file.j), VariablesOf(file.j))
      ]_vars

\* C25: a loaded document (with or without warning) that is saved and
\* loaded again from the saved file comes back equal in every field.
C25_SaveLoadRoundTrip ==
    [][ (LoadFile /\ retval = "saved") =>
           /\ retval' = "true"
           /\ out' = out ]_vars

\* a document that loaded with a warning was saved, the file written
\* leaves out the empty trigger, the null delay_ms and initial = false,
\* and it was loaded again
C25_Witness ==
    /\ retval = "true"
    /\ file.kind = "json"
    /\ file.j = DocumentToJson(out)
    /\ err.kind = "unknown symbol"
    /\ Len(out.transitions) = 2
    /\ out.transitions[2].trigger = ""
    /\ out.transitions[2].delay_ms = JNull
    /\ ~Contains(file.j["states"][2], "initial")

\* the delay_ms of the transition that ArmCall arms
DelayMs == out.transitions[1].delay_ms

\* the delay a variable as it is now stands for: its int value, its double
\* value cast to int, or 1 ms when it is missing or holds a string
VariableDelay(name) ==
    IF name \in DOMAIN m_vars /\ m_vars[name].value.t \in {"int", "double"}
    THEN m_vars[name].value.v
    ELSE 1

\* the delay is 1 ms for null, n ms for every integer n, the variable's for
\* a string
C22_DelayAsDeclared ==
    [][ (ArmCall /\ DelayMs.k \in {"null", "int", "string"}) =>
           timers_'[1].at - now =
              CASE DelayMs.k = "null"   -> 1
                [] DelayMs.k = "int"    -> DelayMs.n
                [] DelayMs.k = "string" -> VariableDelay(DelayMs.s) ]_vars

\* C22: a transition is armed with 1 ms when delay_ms is null, with n ms
\* when it is an integer n > 0 and with 1 ms when it is an integer n <= 0,
\* and when it names a variable with that variable's current int value (or
\* double value cast to int), or 1 ms when the variable is missing or holds
\* a string.
C22_ArmDelay ==
    [][ (ArmCall /\ DelayMs.k \in {"null", "int", "string"}) =>
           timers_'[1].at - now =
              CASE DelayMs.k = "null"   -> 1
                [] DelayMs.k = "int"    -> IF DelayMs.n > 0 THEN DelayMs.n
                                           ELSE 1
                [] DelayMs.k = "string" -> VariableDelay(DelayMs.s) ]_vars

\* a transition whose delay_ms names a variable that holds a string was
\* armed with 1 ms
C22_Witness ==
    /\ retval = "arm"
    /\ DelayMs = JStr("timeout")
    /\ "timeout" \in DOMAIN m_vars
    /\ m_vars["timeout"].value = StrV(<< "x" >>)
    /\ timers_[1].at = now + 1

\* C27: an automaton is built only from documents whose delay_ms are null,
\* integers or strings; a delay_ms of another JSON kind makes loadFile or
\* buildFromDocument fail.
C27_OtherDelayKindsRejected ==
    docId = "file" =>
       \A k \in 1 .. Len(out.transitions) :
          out.transitions[k].delay_ms.k \in {"null", "int", "string"}

\* the type of a datagram, "" for one that carries none
TypeOf(p) ==
    IF p.kind = "object" /\ Contains(p.j, "type") /\ p.j["type"].k = "string"
    THEN p.j["type"].s
    ELSE ""

\* the datagram is an inject or setVar message with a name and a value
WithStrings(p) == TypeOf(p) \in {"inject", "setVar"} /\ HasStrings(p.j)

\* C26: main maps each datagram to at most one call: inject to
\* injectInput(name, value), setVar to setVariable(name, value), shutdown
\* to g_stop = true; a datagram that is no JSON or whose type is none of
\* the three causes no call, leaves g_stop as it is and does not end the
\* driver.
C26_DatagramToAtMostOneCall ==
    [][ Poll =>
          LET p == packet'
          IN  CASE TypeOf(p) = "inject" /\ WithStrings(p) ->
                     /\ m_incoming' =
                           Append(m_incoming, << p.j["name"].s,
                                                 Chars(p.j["value"].s) >>)
                     /\ UNCHANGED << m_vars, g_stop, pc >>
                [] TypeOf(p) = "setVar" /\ WithStrings(p) ->
                     /\ m_vars' = SetVariableIn(m_vars, p.j["name"].s,
                                                Chars(p.j["value"].s))
                     /\ UNCHANGED << m_incoming, g_stop, pc >>
                [] TypeOf(p) \in {"inject", "setVar"} /\ ~WithStrings(p) ->
                     UNCHANGED << m_incoming, m_vars, g_stop >>
                [] TypeOf(p) = "shutdown" ->
                     /\ g_stop'
                     /\ UNCHANGED << m_incoming, m_vars, pc >>
                [] OTHER ->
                     UNCHANGED << m_incoming, m_vars, g_stop, pc >> ]_vars

\* a datagram that is no JSON, or an object whose type is missing or a
\* string other than the three, changes nothing and leaves main running
DroppedWhenTypeIsString ==
    [][ (/\ Poll
         /\ packet'.kind # "value"
         /\ packet'.kind = "object" /\ Contains(packet'.j, "type")
               => packet'.j["type"].k = "string"
         /\ TypeOf(packet') \notin {"inject", "setVar", "shutdown"})
        => UNCHANGED << m_incoming, m_vars, g_stop, pc, m_stop >> ]_vars

\* a well-formed inject, setVar or shutdown datagram was handled
PacketHandled ==
    /\ packet.kind = "object"
    /\ TypeOf(packet) \in {"inject", "setVar", "shutdown"}
    /\ pc # "terminated"
    /\ nInject + nSetVar > 0 \/ g_stop

\* the last element of a non-empty sequence
Last(seq) == seq[Len(seq)]

\* C31: a successful fireTransition sets m_active to the destination and
\* appends the log entry, then calls the snapshot hook, which finds the new
\* active state, then purges the scheduler for the new state, then runs the
\* new state's entry action, which still finds the inputs recorded before
\* the firing, and clears m_inputs last.
C31_FireStepsInOrder ==
    [][ /\ (pc = "fire_loop" /\ pc' = "fire_purge") =>
              LET t == m_transitions(Head(expired).transitionIndex)
              IN  /\ m_active' = t.m_dst
                  /\ m_log' # m_log
                  /\ Last(m_log').state = m_states(t.m_dst).id
                  /\ hookSeen' = Append(hookSeen, m_active')
                  /\ UNCHANGED << timers_, entered, m_inputs >>
        /\ (pc = "fire_purge" /\ pc' # pc) =>
              /\ pc' = "enter"
              /\ timers_' = PurgeForState(timers_, m_active)
              /\ UNCHANGED << m_active, m_log, hookSeen, entered, m_inputs >>
        /\ (pc = "enter" /\ pc' # pc) =>
              /\ pc' = "pull"
              /\ entered' = Append(entered, m_active)
              /\ js'.inputs = m_inputs
              /\ UNCHANGED << m_active, m_log, hookSeen, timers_, m_inputs >>
        /\ (pc = "pull" /\ pc' # pc) =>
              /\ pc' = "fired"
              /\ m_inputs' = EmptyMap
              /\ UNCHANGED << m_active, m_log, hookSeen, timers_, entered >>
      ]_vars

\* the entry action of a new state is about to run: the hook has seen that
\* state and the input that armed the transition is still recorded
C31_Witness ==
    /\ pc = "enter"
    /\ m_active # old
    /\ Last(hookSeen) = m_active
    /\ m_inputs # EmptyMap

\* C32: fireTransition sets m_stateSince to the current time when the
\* destination differs from the state active before and leaves it as it is
\* on a self-loop; nothing else writes m_stateSince.
C32_StateSinceOnlyOnChange ==
    [][ /\ (pc = "fire_purge" /\ pc' # pc) =>
              m_stateSince' = IF m_active # old THEN now ELSE m_stateSince
        /\ pc # "fire_purge" => m_stateSince' = m_stateSince ]_vars

\* a self-loop has fired later than the state was entered
C32_Witness ==
    /\ pc = "enter"
    /\ m_active = old
    /\ lastFire.ok
    /\ m_stateSince < now

RECURSIVE AssignedBy(_)
AssignedBy(stmts) ==
    IF stmts = << >> \/ Head(stmts).op = "throw" THEN {}
    ELSE (IF Head(stmts).op = "assign" THEN {Head(stmts).name} ELSE {})
         \cup AssignedBy(Tail(stmts))

\* C35: after an entry action has run, pullBack writes only the variables
\* the action assigned: every other variable keeps the value it has, also
\* one that setVariable stored while the action was running.
C35_OnlyAssignedWrittenBack ==
    [][ (pc = "pull" /\ pc' = "fired") =>
           \A n \in DOMAIN m_vars \ AssignedBy(m_states(m_active).onEnter) :
              m_vars'[n] = m_vars[n] ]_vars

\* C36: trigger and guard are evaluated only when a transition is armed: a
\* timer is armed only for a transition of the active state whose trigger
\* is the one being processed and whose guard is absent or true, and a
\* popped timer fires exactly when its transition's source is the active
\* state, whatever its guard says then.
C36_GuardOnlyAtArm ==
    [][ /\ armCount' # armCount =>
              LET t == m_transitions(Armed(timers_', armCount).transitionIndex)
              IN  /\ pc = "pit_loop"
                  /\ t.m_src = m_active
                  /\ t.m_inputName = trig
                  /\ GuardHolds(t, m_inputs, varSnap)
        /\ (pc = "fire_loop" /\ expired' # expired) =>
              /\ lastFire'.ok <=> SrcOf(Head(expired)) = m_active
              /\ lastFire'.ok =>
                    m_active' =
                       m_transitions(Head(expired).transitionIndex).m_dst
      ]_vars

\* a transition has fired whose guard is false on the inputs and variables
\* of that moment
C36_Witness ==
    /\ pc = "fire_purge"
    /\ lastFire.ok
    /\ ~GuardHolds(m_transitions(lastFire.idx), m_inputs,
                   MakeVarSnapshot(m_vars))

\* the executor is in the drain loop of run(), or in the
\* processImmediateTransitions called from it
InDrain == pc = "drain" \/ (pc \in {"pit_snap", "pit_loop"} /\ pitRet = "drain")

Pending(h, i) == Cardinality({ k \in 1 .. Len(h) : h[k].transitionIndex = i })

\* C38: arm does not deduplicate: whenever processImmediateTransitions
\* finds a transition triggered it pushes a new timer for it, also when the
\* transition has pending timers already, so their number grows by one;
\* the timers that were pending stay as they are, with their due times.
C38_ArmDoesNotDeduplicate ==
    [][ /\ (pc = "pit_loop" /\ pit_i' # pit_i) =>
              LET i == pit_i' - 1
              IN  IsTriggered(m_transitions(i), trig, m_inputs, varSnap)
                     = "true" =>
                       /\ armCount' = armCount + 1
                       /\ Pending(timers_', i) = Pending(timers_, i) + 1
                       /\ \E k \in 1 .. Len(timers_') :
                             /\ timers_'[k].ord = armCount
                             /\ timers_'[k].transitionIndex = i
        /\ armCount' # armCount =>
              /\ Len(timers_') = Len(timers_) + 1
              /\ TimerSet(timers_) \subseteq TimerSet(timers_') ]_vars

\* with no firing so far, a transition without trigger has two pending
\* timers, the one armed first being due first
C38_Witness ==
    /\ m_log = << >>
    /\ \E k, l \in 1 .. Len(timers_) :
          /\ timers_[k].transitionIndex = timers_[l].transitionIndex
          /\ m_transitions(timers_[k].transitionIndex).m_inputName = ""
          /\ timers_[k].ord < timers_[l].ord
          /\ timers_[k].at < timers_[l].at

\* C39: every snapshot run() sends has an empty inputs map: the first is
\* sent before any input is recorded, the others after fireTransition has
\* cleared m_inputs.
C39_SnapshotInputsEmpty ==
    \A k \in 1 .. Len(sent) : sent[k].inputs = EmptyMap

\* the snapshot of a state change caused by the input in has been sent
C39_Witness ==
    /\ pc = "fire_loop"
    /\ Len(sent) >= 2
    /\ lastFire.ok
    /\ m_transitions(lastFire.idx).m_inputName = "in"
    /\ Last(sent).state = m_states(m_active).id

\* the entries of the script that have left the queue
Drained == nInject - Len(m_incoming)

\* for every input name in the entries, the value of the last entry with
\* that name
LatestOf(entries) ==
    [n \in { entries[k][1] : k \in 1 .. Len(entries) } |->
        entries[CHOOSE k \in 1 .. Len(entries) :
                   /\ entries[k][1] = n
                   /\ \A l \in k + 1 .. Len(entries) : entries[l][1] # n][2]]

\* C40: the queue holds the injected entries that have not been dequeued,
\* in injection order; the executor dequeues the oldest, records it in
\* m_inputs and evaluates the transitions on it; until a transition fires,
\* m_inputs holds for every name the value of its latest dequeued injection.
C40_InputsInInjectionOrder ==
    /\ m_incoming = SubSeq(ScriptOf(docId), Drained + 1, nInject)
    /\ (pc \in {"pit_snap", "pit_loop"} /\ pitRet = "drain") =>
          /\ Drained > 0
          /\ trig = ScriptOf(docId)[Drained][1]
    /\ m_log = << >> =>
          m_inputs = LatestOf(SubSeq(ScriptOf(docId), 1, Drained))

\* enable=1 and enable=0 waited in the queue together and were dequeued in
\* that order: the value recorded is that of the later injection
C40_Witness ==
    /\ docId = "gate2"
    /\ Drained = 3
    /\ m_log = << >>
    /\ m_inputs["enable"] = << "0" >>
    /\ pc = "pit_loop"

\* the positions of run() at which it waits for the mutex or owns it
AtLock == {"wait", "wait_test", "drain", "drain_pop"}

\* C34: the executor owns m_mtx only from the return of wait_for to the
\* test of m_stop after it, and from the top of a drain pass to the pop of
\* one entry; while it owns the mutex it arms nothing, fires nothing, runs
\* no script and sends nothing, so injectInput and requestStop never wait
\* for a guard, an entry action or the channel.
C34_MutexOnlyAroundQueueAndStop ==
    [][ /\ lk => pc \in {"wait_test", "drain_pop"}
        /\ lk' => pc' \in {"wait_test", "drain_pop"}
        /\ (lk /\ pc' # pc) =>
              /\ ~lk'
              /\ UNCHANGED << m_active, m_log, timers_, armCount, sent,
                              entered, hookSeen, js, m_vars, m_outputs >>
              /\ Len(m_incoming') >= Len(m_incoming) - 1
        /\ (pc \notin AtLock /\ pc' # pc) => ~lk /\ (~lk' \/ pc' \in AtLock)
      ]_vars

\* the executor owns the mutex with two inputs in the queue, one of which
\* it is about to pop
C34_Witness ==
    /\ lk
    /\ pc = "drain_pop"
    /\ Len(m_incoming) = 2

====
